---- MODULE Spec2Model ----
(***************************************************************************)
(* The multi-language structural analyzer of code-explain                  *)
(* (backend/app/services/code_parser.py, class CodeParser).                *)
(*                                                                         *)
(* Source text is a sequence of one-character strings.  A syntax tree is   *)
(* the sequence of its nodes in document (pre-)order; a node records its   *)
(* type, its depth below the root and its byte span, which is what         *)
(* tree-sitter's Node exposes to the code (type, children, start_byte,     *)
(* end_byte, start_point, end_point).                                      *)
(***************************************************************************)
EXTENDS Integers, Sequences, FiniteSets, TLC

VARIABLES
    parser,     \* the CodeParser object of the latest constructor call, or None
    error,      \* the exception the latest call raised, or None
    call,       \* the latest call: its operation and argument
    code,       \* the source text at hand
    tree,       \* the syntax tree tree-sitter yields for code
    result,     \* what the latest call returned, or None
    hashed,     \* history: the get_content_hash calls made so far
    instances,  \* the CodeParser objects the callers hold, in construction order
    heap,       \* the objects parse has built: address -> [kind, value]
    held,       \* the results the callers hold, in call order
    repo,       \* the Repository row of the request at hand, or None
    files,      \* its CodeFile rows, in insertion order
    analyzed,   \* history: the files whose text process_file has parsed
    batch_job,  \* the BatchJob row, or None
    items,      \* its BatchJobItem rows, in insertion order
    worker,     \* where process_batch_job_background stands
    cancelled,  \* history: the items pending when a cancellation succeeded
    semaphore,  \* the asyncio.Semaphore of process_repository, or None
    tasks,      \* its fan-out tasks, one per file, in input order
    results     \* what process_repository returned, or None

\* the state of a process_repository call
pipeline == <<semaphore, tasks, results>>

\* the rows of the collaborator layer and its background tasks
collab ==
    <<repo, files, analyzed, batch_job, items, worker, cancelled, pipeline>>

\* what lies outside the call at hand
outside == <<instances, heap, held, collab>>

vars == <<parser, error, call, code, tree, result, hashed, outside>>

(***************************************************************************)
(* Bounds of the model.                                                    *)
(***************************************************************************)
MaxCodeLen == 3

\* The nested frames of one recursive tree walk (count_decisions, _count_nodes,
\* _calculate_depth) that the interpreter allows before it raises
\* RecursionError: sys.getrecursionlimit() less the callers' frames, scaled
\* down from CPython's 1000 to the trees of the model.
RecursionLimit == 6

\* the length of the source texts of the other specifications
MaxMetricLen == 3
MaxDeepLen == 6
MaxClassLen == 7
MaxImportLen == 3
MaxDocLen == 11
MaxHeld == 3
MaxRequestFiles == 2
MaxItems == 3
MaxLogicLen == 9
MaxPyDocLen == 11
MaxNameLen == 4
MaxParamLen == 11
MaxMethodsLen == 10
MaxGoLen == 13
MaxPipelineFiles == 3
MaxConcurrent == 3

\* len(content) > 500_000: the longest text extract_code_files keeps
LargeFileChars == 500000

(***************************************************************************)
(* Python values.                                                          *)
(***************************************************************************)
None == <<>>
Some(x) == <<x>>

Min(S) == CHOOSE x \in S : \A y \in S : x <= y
Max(S) == CHOOSE x \in S : \A y \in S : x >= y

RECURSIVE SortedSeq(_)
SortedSeq(S) == IF S = {} THEN <<>> ELSE <<Min(S)>> \o SortedSeq(S \ {Min(S)})

RECURSIVE Concat(_)
Concat(ss) == IF ss = <<>> THEN <<>> ELSE Head(ss) \o Concat(Tail(ss))

\* s[a:b] for 0 <= a, 0 <= b
Slice(s, a, b) ==
    IF a >= b \/ a >= Len(s) THEN <<>>
    ELSE SubSeq(s, a + 1, IF b > Len(s) THEN Len(s) ELSE b)

\* the characters str.strip() removes
Whitespace == {" ", "\n", "\t", "\r"}

\* s.strip(chars)
RECURSIVE LStrip(_, _)
LStrip(s, chars) ==
    IF s # <<>> /\ Head(s) \in chars THEN LStrip(Tail(s), chars) ELSE s

RECURSIVE RStrip(_, _)
RStrip(s, chars) ==
    IF s # <<>> /\ s[Len(s)] \in chars
    THEN RStrip(SubSeq(s, 1, Len(s) - 1), chars)
    ELSE s

StripChars(s, chars) == RStrip(LStrip(s, chars), chars)
Strip(s) == StripChars(s, Whitespace)

\* s.split(sep) for a one-character separator
RECURSIVE Split(_, _)
Split(s, sep) ==
    LET at == {k \in 1..Len(s) : s[k] = sep}
    IN IF at = {} THEN <<s>>
       ELSE <<SubSeq(s, 1, Min(at) - 1)>>
            \o Split(SubSeq(s, Min(at) + 1, Len(s)), sep)

\* s.split('\n')
SplitLines(s) == Split(s, "\n")

\* s.lower(), for ASCII letters
UpperCase ==
    <<"A", "B", "C", "D", "E", "F", "G", "H", "I", "J", "K", "L", "M",
      "N", "O", "P", "Q", "R", "S", "T", "U", "V", "W", "X", "Y", "Z">>
LowerCase ==
    <<"a", "b", "c", "d", "e", "f", "g", "h", "i", "j", "k", "l", "m",
      "n", "o", "p", "q", "r", "s", "t", "u", "v", "w", "x", "y", "z">>

LowerChar(c) ==
    IF \E k \in 1..26 : UpperCase[k] = c
    THEN LowerCase[CHOOSE k \in 1..26 : UpperCase[k] = c]
    ELSE c

Lower(s) == [k \in 1..Len(s) |-> LowerChar(s[k])]

\* '\n'.join(lines)
RECURSIVE JoinLines(_)
JoinLines(lines) ==
    IF lines = <<>> THEN <<>>
    ELSE IF Len(lines) = 1 THEN lines[1]
    ELSE lines[1] \o <<"\n">> \o JoinLines(Tail(lines))

\* s.startswith(pat), and pat found in s at offset k
MatchAt(s, pat, k) ==
    /\ k >= 0
    /\ k + Len(pat) <= Len(s)
    /\ \A m \in 1..Len(pat) : s[k + m] = pat[m]

StartsWith(s, pat) == MatchAt(s, pat, 0)

\* s.find(pat, from) and s.rfind(pat): an offset, or -1
Find(s, pat, from) ==
    LET hits == {k \in from..Len(s) : MatchAt(s, pat, k)}
    IN IF hits = {} THEN -1 ELSE Min(hits)

RFind(s, pat) ==
    LET hits == {k \in 0..Len(s) : MatchAt(s, pat, k)}
    IN IF hits = {} THEN -1 ELSE Max(hits)

\* the index of the first element of seq that satisfies P, or 0
FirstWhere(seq, P(_)) ==
    LET hits == {k \in 1..Len(seq) : P(seq[k])}
    IN IF hits = {} THEN 0 ELSE Min(hits)

\* bytes(code, "utf8"): the number of bytes of a character
Ascii ==
    {LowerCase[k] : k \in 1..26} \cup {UpperCase[k] : k \in 1..26}
    \cup {" ", "\n", "\t", "\r", "/", "*", "\"", "'", ".", ",", "(", ")", "@",
           "{", "}"}
Utf8Width(c) == IF c \in Ascii THEN 1 ELSE 2

RECURSIVE Utf8Len(_)
Utf8Len(s) == IF s = <<>> THEN 0 ELSE Utf8Width(Head(s)) + Utf8Len(Tail(s))

\* the number of characters of s that lie before a byte offset of its encoding
CharsBefore(s, offset) ==
    Cardinality({k \in 1..Len(s) : Utf8Len(SubSeq(s, 1, k)) <= offset})

(***************************************************************************)
(* tree-sitter's Node, as the code reads it.                               *)
(***************************************************************************)
Node(type, depth, start, end) ==
    [type |-> type, depth |-> depth, start_byte |-> start, end_byte |-> end]

\* the last node, in document order, of the subtree rooted at node i
SubtreeEnd(t, i) ==
    LET after == {j \in (i + 1)..Len(t) : t[j].depth <= t[i].depth}
    IN IF after = {} THEN Len(t) ELSE Min(after) - 1

\* node.children, in order
children(t, i) ==
    SortedSeq({j \in (i + 1)..SubtreeEnd(t, i) : t[j].depth = t[i].depth + 1})

\* code[node.start_byte:node.end_byte]
NodeText(t, src, i) == Slice(src, t[i].start_byte, t[i].end_byte)

\* the row of a byte offset: the number of newlines before it
RowOf(src, offset) ==
    Cardinality({k \in 1..Len(src) :
                    src[k] = "\n" /\ Utf8Len(SubSeq(src, 1, k)) <= offset})

\* the start row taken to be 1-indexed already
start_point_rowOneBased(t, src, i) == RowOf(src, t[i].start_byte) + 1

\* node.start_point[0] and node.end_point[0]
start_point_row(t, src, i) == RowOf(src, t[i].start_byte)
end_point_row(t, src, i) == RowOf(src, t[i].end_byte)

\* a query walk that looks at the root's children only
CapturesTopLevel(t, types) ==
    SortedSeq({i \in 1..Len(t) : t[i].type \in types /\ t[i].depth = 1})

\* query.captures(root)[name] of a query "[(T1) (T2) ...] @name": every node
\* whose type is one of the Ti, in document order
Captures(t, types) == SortedSeq({i \in 1..Len(t) : t[i].type \in types})

(***************************************************************************)
(* CodeParser: the class tables and the constructor.                       *)
(***************************************************************************)
\* the extension table, as <<extension, language>> pairs
LANGUAGE_MAP ==
    <<<<<<"p", "y">>, "python">>,
      <<<<"j", "s">>, "javascript">>,
      <<<<"j", "s", "x">>, "javascript">>,
      <<<<"t", "s">>, "typescript">>,
      <<<<"t", "s", "x">>, "typescript">>,
      <<<<"j", "a", "v", "a">>, "java">>,
      <<<<"c">>, "c">>,
      <<<<"h">>, "c">>,
      <<<<"c", "p", "p">>, "cpp">>,
      <<<<"c", "c">>, "cpp">>,
      <<<<"c", "x", "x">>, "cpp">>,
      <<<<"h", "p", "p">>, "cpp">>,
      <<<<"h", "x", "x">>, "cpp">>,
      <<<<"g", "o">>, "go">>,
      <<<<"r", "s">>, "rust">>>>

SUPPORTED_LANGUAGES ==
    <<"python", "javascript", "typescript", "java", "c", "cpp", "go", "rust">>

SupportedSet == {SUPPORTED_LANGUAGES[k] : k \in DOMAIN SUPPORTED_LANGUAGES}

\* ', '.join(SUPPORTED_LANGUAGES)
SupportedJoined == "python, javascript, typescript, java, c, cpp, go, rust"

\* the grammar the if/elif chain of __init__ selects
GrammarOf(language) ==
    CASE language = "python" -> "tree_sitter_python.language"
      [] language = "javascript" -> "tree_sitter_javascript.language"
      [] language = "typescript" -> "tree_sitter_typescript.language_typescript"
      [] language = "java" -> "tree_sitter_java.language"
      [] language = "c" -> "tree_sitter_c.language"
      [] language = "cpp" -> "tree_sitter_cpp.language"
      [] language = "go" -> "tree_sitter_go.language"
      [] language = "rust" -> "tree_sitter_rust.language"

\* the ValueError of __init__; the message is an f-string, kept as its pieces
UnsupportedLanguageError(language) ==
    [type |-> "ValueError",
     message |-> <<"Unsupported language: ", language, ". Supported: ",
                   SupportedJoined>>]

RecursionError ==
    [type |-> "RecursionError",
     message |-> <<"maximum recursion depth exceeded">>]

\* a constructor that degrades to a default grammar
CodeParserInitFallback(language) ==
    IF language \notin SupportedSet
    THEN [raised |-> None,
          object |-> Some([language |-> "python",
                           ts_language |-> GrammarOf("python")])]
    ELSE [raised |-> None,
          object |-> Some([language |-> language,
                           ts_language |-> GrammarOf(language)])]

\* CodeParser(language): the object, or the exception raised
CodeParserInit(language) ==
    IF language \notin SupportedSet
    THEN [raised |-> Some(UnsupportedLanguageError(language)), object |-> None]
    ELSE [raised |-> None,
          object |-> Some([language |-> language,
                           ts_language |-> GrammarOf(language)])]

(***************************************************************************)
(* Structural extraction: functions.                                       *)
(***************************************************************************)
\* the node types of the language's function query
_get_function_query(language) ==
    CASE language = "python" -> {"function_definition"}
      [] language = "javascript" ->
            {"function_declaration", "arrow_function", "function_expression"}
      [] language = "typescript" ->
            {"function_declaration", "arrow_function", "function_expression",
             "method_definition"}
      [] language = "java" -> {"method_declaration"}
      [] language = "c" -> {"function_definition"}
      [] language = "cpp" -> {"function_definition"}
      [] language = "go" -> {"function_declaration"}
      [] language = "rust" -> {"function_item"}
      [] OTHER -> {}

ANONYMOUS == <<"a", "n", "o", "n", "y", "m", "o", "u", "s">>

Declarators == {"function_declarator", "method_declarator"}

_get_function_name(t, src, i) ==
    LET kids == children(t, i)
        IsId(j) == t[j].type = "identifier"
        \* a child that makes the loop return
        Returns(j) ==
            \/ IsId(j)
            \/ /\ t[j].type \in Declarators
               /\ FirstWhere(children(t, j), IsId) # 0
        k == FirstWhere(kids, Returns)
    IN IF k # 0
       THEN IF IsId(kids[k])
            THEN NodeText(t, src, kids[k])
            ELSE LET sub == children(t, kids[k])
                 IN NodeText(t, src, sub[FirstWhere(sub, IsId)])
       ELSE IF t[i].type \in {"arrow_function", "function_expression", "lambda"}
            THEN ANONYMOUS
       ELSE IF kids # <<>> /\ IsId(kids[1])
            THEN NodeText(t, src, kids[1])
       ELSE ANONYMOUS

_extract_param_identifiers(t, src, p) ==
    LET kids == children(t, p)
        IsId(j) == t[j].type = "identifier"
        Of(j) ==
            IF t[j].type \in {",", "(", ")"} THEN <<>>
            ELSE IF IsId(j) THEN <<NodeText(t, src, j)>>
            ELSE IF t[j].type \in {"typed_parameter", "parameter_declaration",
                                   "formal_parameter"}
                 THEN LET sub == children(t, j)
                          k == FirstWhere(sub, IsId)
                      IN IF k = 0 THEN <<>> ELSE <<NodeText(t, src, sub[k])>>
            ELSE <<>>
    IN Concat([k \in 1..Len(kids) |-> Of(kids[k])])

ParamNodeTypes == {"parameters", "parameter_list", "formal_parameters"}

_get_function_params(t, src, i) ==
    LET kids == children(t, i)
        InDeclarator(j) ==
            LET sub == children(t, j)
            IN Concat([k \in 1..Len(sub) |->
                          IF t[sub[k]].type \in ParamNodeTypes
                          THEN _extract_param_identifiers(t, src, sub[k])
                          ELSE <<>>])
        Of(j) ==
            IF t[j].type \in ParamNodeTypes
            THEN _extract_param_identifiers(t, src, j)
            ELSE IF t[j].type \in Declarators THEN InDeclarator(j)
            ELSE <<>>
    IN Concat([k \in 1..Len(kids) |-> Of(kids[k])])

\* the JSDoc clean-up loop over the lines of a comment
CleanJsDocLine(line) ==
    LET s == Strip(line)
    IN IF StartsWith(s, <<"/", "*", "*">>) THEN Strip(Slice(s, 3, Len(s)))
       ELSE IF StartsWith(s, <<"*">>) THEN Strip(Slice(s, 1, Len(s)))
       ELSE s

CleanJsDoc(comment) ==
    LET lines == SplitLines(comment)
        cleaned == Concat([k \in 1..Len(lines) |->
                              IF CleanJsDocLine(lines[k]) = <<>> THEN <<>>
                              ELSE <<CleanJsDocLine(lines[k])>>])
    IN IF cleaned = <<>> THEN None ELSE Some(JoinLines(cleaned))

_get_docstring(language, t, src, i) ==
    LET IsBlock(j) == t[j].type = "block"
        IsStmt(j) == t[j].type = "expression_statement"
        IsString(j) == t[j].type = "string"
        \* the string nodes the three nested loops visit, in visiting order
        StmtStrings(j) ==
            IF IsStmt(j)
            THEN SelectSeq(children(t, j), IsString)
            ELSE <<>>
        BlockStrings(j) ==
            IF IsBlock(j)
            THEN LET stmts == children(t, j)
                 IN Concat([k \in 1..Len(stmts) |-> StmtStrings(stmts[k])])
            ELSE <<>>
        strings ==
            LET kids == children(t, i)
            IN Concat([k \in 1..Len(kids) |-> BlockStrings(kids[k])])
        code_before == Slice(src, 0, t[i].start_byte)
        open == <<"/", "*", "*">>
        close == <<"*", "/">>
        last == RFind(code_before, open)
        end == Find(code_before, close, last)
    IN IF language = "python"
       THEN IF strings = <<>> THEN None
            ELSE Some(Strip(StripChars(NodeText(t, src, strings[1]),
                                       {"\"", "'"})))
       ELSE IF language \in {"javascript", "typescript"}
       THEN IF last # -1 /\ end # -1 /\ end > last
            THEN CleanJsDoc(Slice(src, last, end + 2))
            ELSE None
       ELSE IF language = "java"
       THEN IF last # -1 /\ end # -1
            THEN Some(Strip(Slice(src, last, end + 2)))
            ELSE None
       ELSE None

_extract_functions(language, t, src) ==
    LET function_nodes == Captures(t, _get_function_query(language))
    IN [k \in 1..Len(function_nodes) |->
           LET n == function_nodes[k]
           IN [name |-> _get_function_name(t, src, n),
               params |-> _get_function_params(t, src, n),
               start_line |-> start_point_row(t, src, n) + 1,
               end_line |-> end_point_row(t, src, n) + 1,
               docstring |-> _get_docstring(language, t, src, n)]]

(***************************************************************************)
(* Structural extraction: classes and imports.                             *)
(***************************************************************************)
_get_class_query(language) ==
    CASE language = "python" -> {"class_definition"}
      [] language = "javascript" -> {"class_declaration"}
      [] language = "typescript" -> {"class_declaration"}
      [] language = "java" -> {"class_declaration"}
      [] language = "cpp" -> {"class_specifier", "struct_specifier"}
      [] language = "c" -> {"struct_specifier"}
      [] language = "go" -> {"type_declaration"}
      [] language = "rust" -> {"struct_item", "enum_item", "impl_item"}
      [] OTHER -> {}

_get_class_name(t, src, i) ==
    LET kids == children(t, i)
        Names(j) ==
            t[j].type \in {"identifier", "type_identifier", "field_identifier"}
        k == FirstWhere(kids, Names)
    IN IF k # 0 THEN NodeText(t, src, kids[k])
       ELSE IF kids # <<>> /\ t[kids[1]].type = "identifier"
            THEN NodeText(t, src, kids[1])
       ELSE <<"A", "n", "o", "n", "y", "m", "o", "u", "s">>

method_types ==
    {"function_definition", "method_definition", "method_declaration",
     "function_declaration", "function_item"}

BodyContainers ==
    {"block", "class_body", "declaration_list", "field_declaration_list"}

\* what one visit of a method-shaped node appends to methods
MethodNameOf(t, src, n) ==
    LET method_name == _get_function_name(t, src, n)
    IN IF method_name # <<>> /\ method_name # ANONYMOUS
       THEN <<method_name>>
       ELSE <<>>

RECURSIVE extract_methods_recursive(_, _, _)
extract_methods_recursive(t, src, n) ==
    LET kids == children(t, n)
        Of(j) ==
            IF t[j].type \in BodyContainers
            THEN extract_methods_recursive(t, src, j)
            ELSE IF t[j].type \in method_types THEN MethodNameOf(t, src, j)
            ELSE <<>>
    IN (IF t[n].type \in method_types THEN MethodNameOf(t, src, n) ELSE <<>>)
       \o Concat([k \in 1..Len(kids) |-> Of(kids[k])])

\* methods tied to a type by being declared with a receiver anywhere in
\* the text
_extract_class_methodsByReceiver(t, src, class_node) ==
    LET declared == SelectSeq([j \in 1..Len(t) |-> j],
                              LAMBDA j : t[j].type = "method_declaration")
        Names(j) == SelectSeq(children(t, j),
                              LAMBDA m : t[m].type = "field_identifier")
    IN Concat([k \in 1..Len(declared) |->
                  [m \in 1..Len(Names(declared[k])) |->
                      NodeText(t, src, Names(declared[k])[m])]])

_extract_class_methods(t, src, class_node) ==
    extract_methods_recursive(t, src, class_node)

_extract_classes(language, t, src) ==
    LET class_nodes == Captures(t, _get_class_query(language))
    IN [k \in 1..Len(class_nodes) |->
           LET n == class_nodes[k]
           IN [name |-> _get_class_name(t, src, n),
               start_line |-> start_point_row(t, src, n) + 1,
               end_line |-> end_point_row(t, src, n) + 1,
               methods |-> _extract_class_methods(t, src, n)]]

_get_import_query(language) ==
    CASE language = "python" -> {"import_statement", "import_from_statement"}
      [] language = "javascript" -> {"import_statement"}
      [] language = "typescript" -> {"import_statement"}
      [] language = "java" -> {"import_declaration"}
      [] language = "cpp" -> {"preproc_include"}
      [] language = "c" -> {"preproc_include"}
      [] language = "go" -> {"import_declaration"}
      [] language = "rust" -> {"use_declaration"}
      [] OTHER -> {}

_extract_imports(language, t, src) ==
    LET import_nodes == Captures(t, _get_import_query(language))
    IN [k \in 1..Len(import_nodes) |->
           Strip(NodeText(t, src, import_nodes[k]))]

(***************************************************************************)
(* Metrics.                                                                *)
(***************************************************************************)
decision_nodes ==
    {"if_statement", "if_expression", "elif_clause", "else_clause",
     "while_statement", "for_statement", "for_in_statement", "for_range_loop",
     "loop_expression",
     "case_statement", "switch_statement", "match_expression",
     "catch_clause", "try_statement",
     "conditional_expression", "ternary_expression",
     "binary_expression"}

LogicalOperators == {"&&", "||", "and", "or"}

RECURSIVE SumSeq(_)
SumSeq(s) == IF s = <<>> THEN 0 ELSE Head(s) + SumSeq(Tail(s))

\* every binary expression counted, whatever its operator
RECURSIVE count_decisionsAnyOperator(_, _)
count_decisionsAnyOperator(t, n) ==
    LET kids == children(t, n)
    IN (IF t[n].type \in decision_nodes THEN 1 ELSE 0)
       + SumSeq([k \in 1..Len(kids) |->
                    count_decisionsAnyOperator(t, kids[k])])

\* the walk stops below a decision point
RECURSIVE count_decisionsShallow(_, _)
count_decisionsShallow(t, n) ==
    LET kids == children(t, n)
    IN IF t[n].type \in decision_nodes \ {"binary_expression"} THEN 1
       ELSE SumSeq([k \in 1..Len(kids) |->
                       count_decisionsShallow(t, kids[k])])

RECURSIVE count_decisions(_, _)
count_decisions(t, n) ==
    LET kids == children(t, n)
        own ==
            IF t[n].type \in decision_nodes
            THEN IF t[n].type = "binary_expression"
                 THEN IF \E k \in 1..Len(kids) :
                            t[kids[k]].type \in LogicalOperators
                      THEN 1 ELSE 0
                 ELSE 1
            ELSE 0
    IN own + SumSeq([k \in 1..Len(kids) |-> count_decisions(t, kids[k])])

\* the base complexity forgotten
_calculate_complexityNoBase(t) == count_decisions(t, 1)

_calculate_complexity(t) == 1 + count_decisions(t, 1)

RECURSIVE _count_nodes(_, _)
_count_nodes(t, n) ==
    LET kids == children(t, n)
    IN 1 + SumSeq([k \in 1..Len(kids) |-> _count_nodes(t, kids[k])])

RECURSIVE _calculate_depth(_, _, _)
_calculate_depth(t, n, current_depth) ==
    LET kids == children(t, n)
    IN IF kids = <<>> THEN current_depth
       ELSE Max({_calculate_depth(t, kids[k], current_depth + 1) :
                    k \in 1..Len(kids)})

\* lines counted as non-empty without stripping them
_generate_summaryNoStrip(t, src) ==
    LET lines == SplitLines(src)
    IN [total_lines |-> Len(lines),
        non_empty_lines |-> Len(SelectSeq(lines, LAMBDA line : line # <<>>)),
        node_count |-> _count_nodes(t, 1),
        max_depth |-> _calculate_depth(t, 1, 0)]

_generate_summary(t, src) ==
    LET lines == SplitLines(src)
    IN [total_lines |-> Len(lines),
        non_empty_lines |->
            Len(SelectSeq(lines, LAMBDA line : Strip(line) # <<>>)),
        node_count |-> _count_nodes(t, 1),
        max_depth |-> _calculate_depth(t, 1, 0)]

(***************************************************************************)
(* parse.                                                                  *)
(***************************************************************************)
\* the type of tree.root_node in each grammar
RootType(language) ==
    CASE language = "python" -> "module"
      [] language \in {"javascript", "typescript", "java"} -> "program"
      [] language \in {"c", "cpp"} -> "translation_unit"
      [] OTHER -> "source_file"

\* the tree of the empty source text: a root without children
EmptyTree(language) == <<Node(RootType(language), 0, 0, 0)>>

\* the frames a recursive walk from the root needs: one per level of the tree
FramesNeeded(t) == 1 + Max({t[i].depth : i \in 1..Len(t)})

\* parser.parse(code): the record returned, or the exception raised
parse(p, src, t) ==
    IF FramesNeeded(t) > RecursionLimit
    THEN [raised |-> Some(RecursionError), value |-> None]
    ELSE [raised |-> None,
          value |-> Some([functions |-> _extract_functions(p.language, t, src),
                          classes |-> _extract_classes(p.language, t, src),
                          imports |-> _extract_imports(p.language, t, src),
                          complexity |-> _calculate_complexity(t),
                          summary |-> _generate_summary(t, src)])]

(***************************************************************************)
(* The state machine: a caller constructs a parser for a language, takes   *)
(* up a source text and has it parsed.                                     *)
(***************************************************************************)
\* the language ids callers pass: the supported ones and some others
LanguageInputs == SupportedSet \cup {"ruby", "Python", "py", ""}

NoCall == [op |-> "none", arg |-> None]

NothingStored ==
    /\ repo = None
    /\ files = <<>>
    /\ analyzed = {}
    /\ batch_job = None
    /\ items = <<>>
    /\ worker = [at |-> "idle", item |-> 0]
    /\ cancelled = None
    /\ semaphore = None
    /\ tasks = <<>>
    /\ results = None

NothingHeld ==
    /\ instances = <<>>
    /\ heap = <<>>
    /\ held = <<>>
    /\ NothingStored

Init ==
    /\ parser = None
    /\ error = None
    /\ call = NoCall
    /\ code = <<>>
    /\ tree = <<>>
    /\ result = None
    /\ hashed = {}
    /\ NothingHeld

\* the state after parser = CodeParser(language) for a supported language
Constructed(language) ==
    /\ parser = CodeParserInit(language).object
    /\ error = None
    /\ call = [op |-> "__init__", arg |-> Some(language)]
    /\ code = <<>>
    /\ tree = EmptyTree(language)
    /\ result = None
    /\ hashed = {}
    /\ NothingHeld

\* parser = CodeParser(language), before a source text is taken up
\* (documentation_service.process_file constructs one parser per file)
Construct(language) ==
    /\ code = <<>>
    /\ parser' = CodeParserInit(language).object
    /\ error' = CodeParserInit(language).raised
    /\ call' = [op |-> "__init__", arg |-> Some(language)]
    /\ tree' = IF language \in SupportedSet THEN EmptyTree(language) ELSE <<>>
    /\ UNCHANGED <<code, hashed, outside>>
    /\ result' = None

\* the source text grows by a whitespace character: no node is added
TypeSpace(c, bound) ==
    /\ parser # None
    /\ call.op = "__init__"
    /\ Len(code) < bound
    /\ code' = Append(code, c)
    /\ UNCHANGED <<parser, error, call, tree, result, hashed, outside>>

\* The source text grows, at the node position at, by the tokens of a snippet:
\* a sequence of <<type, relative depth>> pairs in document order, one token
\* each, whose first node lands at the given depth.  Later nodes move right;
\* the ancestors of the new nodes now end where their last node ends.
InsertAt(t, src, at, depth, snippet, c) ==
    LET n == Len(snippet)
        offset == IF at <= Len(t) THEN t[at].start_byte ELSE Utf8Len(src)
        width == n * Utf8Width(c)
        IsAncestor(k) ==
            /\ k < at
            /\ t[k].depth < depth
            /\ \A j \in (k + 1)..(at - 1) : t[j].depth > t[k].depth
        Old(k) ==
            IF k >= at
            THEN [t[k] EXCEPT !.start_byte = @ + width, !.end_byte = @ + width]
            ELSE IF IsAncestor(k)
            THEN [t[k] EXCEPT
                     !.start_byte = IF Len(t) = 1 THEN offset ELSE @,
                     !.end_byte = IF @ > offset THEN @ + width
                                  ELSE offset + width]
            ELSE t[k]
        New(m) ==
            Node(snippet[m][1], depth + snippet[m][2],
                 offset + (m - 1) * Utf8Width(c),
                 \* a node ends where the last node of its subtree ends
                 offset + Utf8Width(c) *
                     Max({j \in m..n :
                             \A i \in (m + 1)..j :
                                 snippet[i][2] > snippet[m][2]}))
    IN [tree |-> [k \in 1..(Len(t) + n) |->
                     IF k < at THEN Old(k)
                     ELSE IF k < at + n THEN New(k - at + 1)
                     ELSE Old(k - n)],
        code |-> SubSeq(src, 1, CharsBefore(src, offset)) \o [m \in 1..n |-> c]
                 \o SubSeq(src, CharsBefore(src, offset) + 1, Len(src))]

\* a new subtree may stand at position at with its root at the given depth
CanInsert(t, at, depth) ==
    /\ at \in 2..(Len(t) + 1)
    /\ depth \in 1..(t[at - 1].depth + 1)
    /\ at <= Len(t) => t[at].depth <= depth

Insert(at, depth, snippet, c, bound) ==
    /\ parser # None
    /\ call.op = "__init__"
    /\ Len(code) + Len(snippet) <= bound
    /\ CanInsert(tree, at, depth)
    /\ tree' = InsertAt(tree, code, at, depth, snippet, c).tree
    /\ code' = InsertAt(tree, code, at, depth, snippet, c).code
    /\ UNCHANGED <<parser, error, call, result, hashed, outside>>

\* the source text grows at its end by one token that opens a node
TypeToken(c, type, depth, bound) ==
    Insert(Len(tree) + 1, depth, <<<<type, 0>>>>, c, bound)

\* result = parser.parse(code)
Parse ==
    /\ parser # None
    /\ call.op = "__init__"
    /\ result' = parse(parser[1], code, tree).value
    /\ error' = parse(parser[1], code, tree).raised
    /\ call' = [op |-> "parse", arg |-> Some(code)]
    /\ UNCHANGED <<parser, code, tree, hashed, outside>>

\* the caller is done with the result and the text
Discard ==
    /\ call.op = "parse"
    /\ code' = <<>>
    /\ tree' = EmptyTree(parser[1].language)
    /\ call' = [op |-> "__init__", arg |-> Some(parser[1].language)]
    /\ result' = None
    /\ error' = None
    /\ UNCHANGED <<parser, hashed, outside>>

\* the node types the queries of the parser's language look for, and one
\* they do not
QueryAlphabet ==
    IF parser = None THEN {}
    ELSE _get_function_query(parser[1].language)
         \cup _get_class_query(parser[1].language)
         \cup {"identifier"}

Next ==
    \/ \E language \in LanguageInputs : Construct(language)
    \/ TypeSpace("\n", MaxCodeLen)
    \/ \E type \in QueryAlphabet, depth \in 1..MaxCodeLen :
           TypeToken("x", type, depth, MaxCodeLen)
    \/ Parse
    \/ Discard

Spec == Init /\ [][Next]_vars

(***************************************************************************)
(* Deeply nested source text.                                              *)
(***************************************************************************)
InitDeep == Constructed("python")

NextDeep ==
    \/ \E type \in {"parenthesized_expression", "if_statement"},
          depth \in 1..MaxDeepLen :
           TypeToken("x", type, depth, MaxDeepLen)
    \/ Parse
    \/ Discard

SpecDeep == InitDeep /\ [][NextDeep]_vars

(***************************************************************************)
(* Source texts of decision constructs, grown by inserting subtrees.       *)
(***************************************************************************)
MetricAlphabet ==
    {"if_statement", "for_statement", "binary_expression", "&&", "+",
     "identifier"}

\* one node of a type
Leaf(type) == <<<<type, 0>>>>

\* subtrees inserted anywhere
Snippets ==
    {Leaf(type) : type \in MetricAlphabet}
    \cup {<<<<"binary_expression", 0>>, <<"&&", 1>>>>,
          <<<<"for_statement", 0>>, <<"if_statement", 1>>>>}

\* subtrees that make up a source text on their own
LoneSnippets ==
    {Leaf(type) : type \in decision_nodes \cup LogicalOperators
                           \cup {"for_expression", "boolean_operator"}}
    \cup {<<<<"binary_expression", 0>>, <<op, 1>>>> :
             op \in LogicalOperators \cup {"==", "<"}}
    \cup {<<<<"binary_expression", 0>>, <<"identifier", 1>>, <<"||", 1>>>>,
          <<<<"binary_expression", 0>>, <<"&&", 1>>, <<"||", 1>>>>}

InsertSnippet ==
    /\ \A k \in 2..Len(tree) : tree[k].type \in MetricAlphabet
    /\ \E snippet \in (IF Len(tree) = 1 THEN Snippets \cup LoneSnippets
                       ELSE Snippets),
          at \in 2..(MaxMetricLen + 1), depth \in 1..MaxMetricLen :
           Insert(at, depth, snippet, "x", MaxMetricLen)

\* complexity and summary are computed alike for every language
InitMetrics == \E language \in {"python", "java", "rust"} : Constructed(language)

NextMetrics ==
    \/ \E c \in {" ", "\n"} : TypeSpace(c, MaxMetricLen)
    \/ InsertSnippet
    \/ Parse
    \/ Discard

SpecMetrics == InitMetrics /\ [][NextMetrics]_vars

(***************************************************************************)
(* detect_language.                                                        *)
(***************************************************************************)
\* dict.get(key) on a sequence of <<key, value>> pairs
DictGet(dict, key) ==
    IF \E k \in DOMAIN dict : dict[k][1] = key
    THEN Some(dict[CHOOSE k \in DOMAIN dict : dict[k][1] = key][2])
    ELSE None

\* the extension taken without lower-casing it
detect_languageCaseSensitive(filename) ==
    LET parts == Split(filename, ".")
        ext == parts[Len(parts)]
    IN DictGet(LANGUAGE_MAP, ext)

\* the extension taken after the first dot, not the last
detect_languageFirstDot(filename) ==
    LET parts == Split(filename, ".")
        ext == Lower(parts[IF Len(parts) > 1 THEN 2 ELSE 1])
    IN DictGet(LANGUAGE_MAP, ext)

\* CodeParser.detect_language(filename): Some(language), or None
detect_language(filename) ==
    LET parts == Split(filename, ".")
        ext == Lower(parts[Len(parts)])
    IN DictGet(LANGUAGE_MAP, ext)

\* the file names callers pass: names with an extension ...
Stems ==
    {<<"a">>,
     <<"a", ".", "b">>,
     <<"g", "o">>,
     <<"M", "a", "i", "n">>,
     <<"x", ".", "p", "y">>,
     <<>>}

Extensions ==
    {<<"p", "y">>,
     <<"P", "Y">>,
     <<"P", "y">>,
     <<"j", "s">>,
     <<"J", "S">>,
     <<"J", "s">>,
     <<"j", "s", "x">>,
     <<"J", "S", "X">>,
     <<"J", "s", "x">>,
     <<"t", "s">>,
     <<"T", "S">>,
     <<"T", "s">>,
     <<"t", "s", "x">>,
     <<"T", "S", "X">>,
     <<"T", "s", "x">>,
     <<"j", "a", "v", "a">>,
     <<"J", "A", "V", "A">>,
     <<"J", "a", "v", "a">>,
     <<"c">>,
     <<"C">>,
     <<"h">>,
     <<"H">>,
     <<"c", "p", "p">>,
     <<"C", "P", "P">>,
     <<"C", "p", "p">>,
     <<"c", "c">>,
     <<"C", "C">>,
     <<"C", "c">>,
     <<"c", "x", "x">>,
     <<"C", "X", "X">>,
     <<"C", "x", "x">>,
     <<"h", "p", "p">>,
     <<"H", "P", "P">>,
     <<"H", "p", "p">>,
     <<"h", "x", "x">>,
     <<"H", "X", "X">>,
     <<"H", "x", "x">>,
     <<"g", "o">>,
     <<"G", "O">>,
     <<"G", "o">>,
     <<"r", "s">>,
     <<"R", "S">>,
     <<"R", "s">>,
     <<"t", "x", "t">>,
     <<>>,
     <<"p", "y", "c">>,
     <<"p">>,
     <<"m", "d">>}

\* ... and names without one
BareNames ==
    {<<>>,
     <<"g", "o">>,
     <<"c">>,
     <<"j", "a", "v", "a">>,
     <<"p", "y">>,
     <<"M", "a", "k", "e", "f", "i", "l", "e">>,
     <<"H">>,
     <<"R", "S">>,
     <<"R", "E", "A", "D", "M", "E">>,
     <<"c", "p", "p">>}

FilenameInputs ==
    {stem \o <<".">> \o ext : stem \in Stems, ext \in Extensions}
    \cup BareNames

\* result = CodeParser.detect_language(filename)
DetectLanguage(filename) ==
    /\ result' = Some(detect_language(filename))
    /\ error' = None
    /\ call' = [op |-> "detect_language", arg |-> Some(filename)]
    /\ UNCHANGED <<parser, code, tree, hashed, outside>>

NextDetect == \E filename \in FilenameInputs : DetectLanguage(filename)

SpecDetect == Init /\ [][NextDetect]_vars

(***************************************************************************)
(* get_content_hash: hashlib.sha256(code.encode()).hexdigest().            *)
(*                                                                         *)
(* SHA-256 as hashlib computes it (FIPS 180-4).  A 32-bit word is a pair   *)
(* <<high 16 bits, low 16 bits>>.                                          *)
(***************************************************************************)
RECURSIVE Pow2(_)
Pow2(n) == IF n = 0 THEN 1 ELSE 2 * Pow2(n - 1)

RECURSIVE Xor16(_, _)
Xor16(a, b) ==
    IF a = 0 THEN b
    ELSE IF b = 0 THEN a
    ELSE (((a % 2) + (b % 2)) % 2) + 2 * Xor16(a \div 2, b \div 2)

RECURSIVE And16(_, _)
And16(a, b) ==
    IF a = 0 \/ b = 0 THEN 0
    ELSE ((a % 2) * (b % 2)) + 2 * And16(a \div 2, b \div 2)

WordXor(a, b) == <<Xor16(a[1], b[1]), Xor16(a[2], b[2])>>
WordAnd(a, b) == <<And16(a[1], b[1]), And16(a[2], b[2])>>
WordNot(a) == <<65535 - a[1], 65535 - a[2]>>

\* (a + b) mod 2^32
WordAdd(a, b) ==
    LET lo == a[2] + b[2]
    IN <<(a[1] + b[1] + (lo \div 65536)) % 65536, lo % 65536>>

\* rotate right and shift right by n bits, 0 < n < 32
RotR(a, n) ==
    LET hi == IF n >= 16 THEN a[2] ELSE a[1]
        lo == IF n >= 16 THEN a[1] ELSE a[2]
        m == n % 16
    IN IF m = 0 THEN <<hi, lo>>
       ELSE <<(hi \div Pow2(m)) + ((lo % Pow2(m)) * Pow2(16 - m)),
              (lo \div Pow2(m)) + ((hi % Pow2(m)) * Pow2(16 - m))>>

ShR(a, n) ==
    IF n >= 16 THEN <<0, a[1] \div Pow2(n - 16)>>
    ELSE <<a[1] \div Pow2(n),
           (a[2] \div Pow2(n)) + ((a[1] % Pow2(n)) * Pow2(16 - n))>>

Ch(e, f, g) == WordXor(WordAnd(e, f), WordAnd(WordNot(e), g))
Maj(a, b, c) ==
    WordXor(WordXor(WordAnd(a, b), WordAnd(a, c)), WordAnd(b, c))
BigSigma0(a) == WordXor(WordXor(RotR(a, 2), RotR(a, 13)), RotR(a, 22))
BigSigma1(e) == WordXor(WordXor(RotR(e, 6), RotR(e, 11)), RotR(e, 25))
SmallSigma0(w) == WordXor(WordXor(RotR(w, 7), RotR(w, 18)), ShR(w, 3))
SmallSigma1(w) == WordXor(WordXor(RotR(w, 17), RotR(w, 19)), ShR(w, 10))

\* the round constants and the initial hash value
Sha256K ==
    <<<<17034, 12184>>, <<28983, 17553>>, <<46528, 64463>>, <<59829, 56229>>,
      <<14678, 49755>>, <<23025, 4593>>, <<37439, 33444>>, <<43804, 24277>>,
      <<55303, 43672>>, <<4739, 23297>>, <<9265, 34238>>, <<21772, 32195>>,
      <<29374, 23924>>, <<32990, 45566>>, <<39900, 1703>>, <<49563, 61812>>,
      <<58523, 27073>>, <<61374, 18310>>, <<4033, 40390>>, <<9228, 41420>>,
      <<11753, 11375>>, <<19060, 33962>>, <<23728, 43484>>, <<30457, 35034>>,
      <<38974, 20818>>, <<43057, 50797>>, <<45059, 10184>>, <<48985, 32711>>,
      <<50912, 3059>>, <<54695, 37191>>, <<1738, 25425>>, <<5161, 10599>>,
      <<10167, 2693>>, <<11803, 8504>>, <<19756, 28156>>, <<21304, 3347>>,
      <<25866, 29524>>, <<30314, 2747>>, <<33218, 51502>>, <<37490, 11397>>,
      <<41663, 59553>>, <<43034, 26187>>, <<49739, 35696>>, <<51052, 20899>>,
      <<53650, 59417>>, <<54937, 1572>>, <<62478, 13701>>, <<4202, 41072>>,
      <<6564, 49430>>, <<7735, 27656>>, <<10056, 30540>>, <<13488, 48309>>,
      <<14620, 3251>>, <<20184, 43594>>, <<23452, 51791>>, <<26670, 28659>>,
      <<29839, 33518>>, <<30885, 25455>>, <<33992, 30740>>, <<36039, 520>>,
      <<37054, 65530>>, <<42064, 27883>>, <<48889, 41975>>, <<50801, 30962>>>>

Sha256H0 ==
    <<<<27145, 58983>>, <<47975, 44677>>, <<15470, 62322>>, <<42319, 62778>>,
      <<20750, 21119>>, <<39685, 26764>>, <<8067, 55723>>, <<23520, 52505>>>>

\* the message, padded to a multiple of 64 bytes
RECURSIVE Zeros(_)
Zeros(n) == IF n = 0 THEN <<>> ELSE <<0>> \o Zeros(n - 1)

Sha256Pad(bytes) ==
    LET n == Len(bytes)
        bits == 8 * n
        fill == (119 - (n % 64)) % 64
    IN bytes \o <<128>> \o Zeros(fill) \o <<0, 0, 0, 0>>
       \o <<(bits \div 16777216) % 256, (bits \div 65536) % 256,
            (bits \div 256) % 256, bits % 256>>

\* the 16 words of a 64-byte block, and the 64 words of its message schedule
BlockWords(block) ==
    [i \in 1..16 |-> <<block[4 * i - 3] * 256 + block[4 * i - 2],
                         block[4 * i - 1] * 256 + block[4 * i]>>]

RECURSIVE Sha256Schedule(_)
Sha256Schedule(w) ==
    IF Len(w) = 64 THEN w
    ELSE LET t == Len(w) + 1
         IN Sha256Schedule(
                Append(w, WordAdd(WordAdd(SmallSigma1(w[t - 2]), w[t - 7]),
                                  WordAdd(SmallSigma0(w[t - 15]),
                                          w[t - 16]))))

\* one round of the compression function on the working state s
Sha256Round(s, k, w) ==
    LET t1 == WordAdd(WordAdd(WordAdd(s[8], BigSigma1(s[5])),
                              Ch(s[5], s[6], s[7])),
                      WordAdd(k, w))
        t2 == WordAdd(BigSigma0(s[1]), Maj(s[1], s[2], s[3]))
    IN <<WordAdd(t1, t2), s[1], s[2], s[3],
         WordAdd(s[4], t1), s[5], s[6], s[7]>>

\* the working states after 0, 1, ... 64 rounds
RECURSIVE Sha256Rounds(_, _)
Sha256Rounds(states, w) ==
    IF Len(states) = 65 THEN states
    ELSE LET t == Len(states)
         IN Sha256Rounds(
                Append(states, Sha256Round(states[t], Sha256K[t], w[t])), w)

Sha256Compress(h, block) ==
    LET w == Sha256Schedule(BlockWords(block))
        s == Sha256Rounds(<<h>>, w)[65]
    IN [i \in 1..8 |-> WordAdd(h[i], s[i])]

RECURSIVE Sha256Blocks(_, _)
Sha256Blocks(h, padded) ==
    IF padded = <<>> THEN h
    ELSE Sha256Blocks(Sha256Compress(h, SubSeq(padded, 1, 64)),
                      SubSeq(padded, 65, Len(padded)))

\* .hexdigest(): lower-case hexadecimal, eight digits a word
HexDigits ==
    <<"0", "1", "2", "3", "4", "5", "6", "7", "8", "9",
      "a", "b", "c", "d", "e", "f">>

Hex16(v) ==
    <<HexDigits[(v \div 4096) + 1], HexDigits[((v \div 256) % 16) + 1],
      HexDigits[((v \div 16) % 16) + 1], HexDigits[(v % 16) + 1]>>

RECURSIVE HexWords(_)
HexWords(ws) ==
    IF ws = <<>> THEN <<>>
    ELSE Hex16(Head(ws)[1]) \o Hex16(Head(ws)[2]) \o HexWords(Tail(ws))

\* hashlib.sha256(bytes).hexdigest(), computed
Sha256HexDigest(bytes) ==
    LET h == Sha256Blocks(Sha256H0, Sha256Pad(bytes))
    IN HexWords([i \in 1..8 |-> h[i]])

\* code.encode(): the UTF-8 bytes of a character; "U+00E9" stands for the
\* one character e with acute accent
Utf8Bytes(c) ==
    CASE c = "a" -> <<97>>
      [] c = "b" -> <<98>>
      [] c = "c" -> <<99>>
      [] c = "d" -> <<100>>
      [] c = " " -> <<32>>
      [] c = "\n" -> <<10>>
      [] c = "U+00E9" -> <<195, 169>>

RECURSIVE Encode(_)
Encode(s) == IF s = <<>> THEN <<>> ELSE Utf8Bytes(Head(s)) \o Encode(Tail(s))

\* the source texts callers hash: the empty text, near-duplicates, a text
\* that differs in white space only, and one with a two-byte character
HashTexts ==
    {<<>>,
     <<"a", "b", "c">>,
     <<"a", "b", "d">>,
     <<"a", "b", "c", "\n">>,
     <<"U+00E9">>}

\* the digests of the texts of the model, computed once
Sha256Known == {<<Encode(text), Sha256HexDigest(Encode(text))>> : text \in HashTexts}

\* hashlib.sha256(bytes).hexdigest()
Sha256Hex(bytes) ==
    IF \E known \in Sha256Known : known[1] = bytes
    THEN (CHOOSE known \in Sha256Known : known[1] = bytes)[2]
    ELSE Sha256HexDigest(bytes)

\* a digest kept from the previous call and returned whatever the text
get_content_hashCached(text) ==
    IF call.op = "get_content_hash" THEN result[1]
    ELSE Sha256Hex(Encode(text))

\* CodeParser.get_content_hash(code)
get_content_hash(text) == Sha256Hex(Encode(text))

\* result = CodeParser.get_content_hash(text); a static method, called with
\* or without a parser at hand
GetContentHash(text) ==
    /\ result' = Some(get_content_hash(text))
    /\ error' = None
    /\ call' = [op |-> "get_content_hash", arg |-> Some(text)]
    /\ hashed' = hashed \cup {[text |-> text,
                               digest |-> get_content_hash(text),
                               parser |-> parser]}
    /\ UNCHANGED <<parser, code, tree, outside>>

NextHash ==
    \/ \E language \in {"python", "ruby"} : Construct(language)
    \/ Parse
    \/ \E text \in HashTexts : GetContentHash(text)

SpecHash == Init /\ [][NextHash]_vars

(***************************************************************************)
(* Source texts of classes and their members, in the shapes the grammars   *)
(* give them: a JavaScript class_declaration holds an identifier and a     *)
(* class_body of method_definition nodes, each named by a                  *)
(* property_identifier; a Python class_definition holds an identifier and  *)
(* a block of function_definition nodes, each named by an identifier.      *)
(***************************************************************************)
ClassSnippet(language) ==
    CASE language = "javascript" ->
             <<<<"class_declaration", 0>>, <<"identifier", 1>>,
               <<"class_body", 1>>>>
      [] language = "python" ->
             <<<<"class_definition", 0>>, <<"identifier", 1>>,
               <<"block", 1>>>>

MethodSnippet(language) ==
    CASE language = "javascript" ->
             <<<<"method_definition", 0>>, <<"property_identifier", 1>>>>
      [] language = "python" ->
             <<<<"function_definition", 0>>, <<"identifier", 1>>>>

\* the source text grows at its end by a class or by a method, spelled with
\* the letter c
InsertMember ==
    \E snippet \in {ClassSnippet(parser[1].language),
                    MethodSnippet(parser[1].language)},
       depth \in {1, 3}, c \in {"f", "g"} :
        Insert(Len(tree) + 1, depth, snippet, c, MaxClassLen)

InitClass == \E language \in {"python", "javascript"} : Constructed(language)

NextClass ==
    \/ InsertMember
    \/ Parse
    \/ Discard

SpecClass == InitClass /\ [][NextClass]_vars

(***************************************************************************)
(* Source texts of import statements, comments and white space.  "U+00E9"  *)
(* stands for the one character e with acute accent, two bytes in UTF-8.   *)
(***************************************************************************)
InitImports == Constructed("python")

NextImports ==
    \/ \E c \in {" ", "\n"} : TypeSpace(c, MaxImportLen)
    \/ \E c \in {"x", "U+00E9"} :
           TypeToken(c, "comment", 1, MaxImportLen)
    \/ \E type \in _get_import_query("python"), c \in {"f", "g"} :
           TypeToken(c, type, 1, MaxImportLen)
    \/ Parse
    \/ Discard

SpecImports == InitImports /\ [][NextImports]_vars

(***************************************************************************)
(* Source texts of documented functions: block comments, line breaks and   *)
(* function nodes, typed one after another.                                *)
(***************************************************************************)
\* /**x*/ on one line, and /** , *x , */ on three lines
DocComments ==
    {<<"/", "*", "*", "x", "*", "/">>,
     <<"/", "*", "*", "\n", "*", "x", "\n", "*", "/">>}

\* the source text grows at its end by a block comment, one comment node
TypeComment(text, bound) ==
    /\ parser # None
    /\ call.op = "__init__"
    /\ Len(code) + Len(text) <= bound
    /\ code' = code \o text
    /\ tree' = [k \in 1..(Len(tree) + 1) |->
                   IF k = 1
                   THEN [tree[1] EXCEPT
                            !.start_byte = IF Len(tree) = 1 THEN Utf8Len(code)
                                           ELSE @,
                            !.end_byte = Utf8Len(code) + Utf8Len(text)]
                   ELSE IF k <= Len(tree) THEN tree[k]
                   ELSE Node("comment", 1, Utf8Len(code),
                             Utf8Len(code) + Utf8Len(text))]
    /\ UNCHANGED <<parser, error, call, result, hashed, outside>>

InitDoc == \E language \in {"javascript", "java"} : Constructed(language)

NextDoc ==
    \/ TypeSpace("\n", MaxDocLen)
    \/ \E text \in DocComments : TypeComment(text, MaxDocLen)
    \/ \E type \in _get_function_query(parser[1].language)
                       \cap {"function_declaration", "method_declaration"} :
           TypeToken("f", type, 1, MaxDocLen)
    \/ Parse
    \/ Discard

SpecDoc == InitDoc /\ [][NextDoc]_vars

(***************************************************************************)
(* Several parsers, and the results their callers keep.  A dict or list    *)
(* that parse builds is an object on the heap, known by its address; a     *)
(* result dict holds the addresses of its lists and of its summary.        *)
(***************************************************************************)
\* an object that shares an equal earlier one instead of being built
NewInterned(h, object) ==
    LET equal == {a \in 1..Len(h) : /\ h[a].kind = object.kind
                                    /\ h[a].value = object.value}
    IN IF equal # {}
       THEN [heap |-> h, ref |-> CHOOSE a \in equal : TRUE]
       ELSE [heap |-> Append(h, object), ref |-> Len(h) + 1]

\* a dict display { ... } or a list [] builds a new object
New(h, object) == [heap |-> Append(h, object), ref |-> Len(h) + 1]

\* the objects of seq built one after another: the heap afterwards and
\* their addresses
RECURSIVE Build(_, _)
Build(h, seq) ==
    IF seq = <<>> THEN [heap |-> h, refs |-> <<>>]
    ELSE LET rest == Build(New(h, Head(seq)).heap, Tail(seq))
         IN [heap |-> rest.heap,
             refs |-> <<New(h, Head(seq)).ref>> \o rest.refs]

\* the dict that parse returns, made of the value v, built on the heap h:
\* its lists and its summary first, then the dict that holds them
ReturnDict(v, h) ==
    LET parts == Build(h, <<[kind |-> "functions", value |-> v.functions],
                            [kind |-> "classes", value |-> v.classes],
                            [kind |-> "imports", value |-> v.imports],
                            [kind |-> "summary", value |-> v.summary]>>)
    IN New(parts.heap,
           [kind |-> "result",
            value |-> [functions |-> parts.refs[1],
                       classes |-> parts.refs[2],
                       imports |-> parts.refs[3],
                       complexity |-> v.complexity,
                       summary |-> parts.refs[4]]])

\* the source texts the callers parse: the empty text, and a class with
\* one method
PureTexts(language) ==
    {[code |-> <<>>, tree |-> EmptyTree(language)],
     InsertAt(EmptyTree(language), <<>>, 2, 1,
              ClassSnippet(language) \o MethodSnippet(language), "f")}

ParserIds == {1, 2}

\* instances.append(CodeParser(language))
ConstructInstance(language) ==
    /\ Len(instances) + 1 \in ParserIds
    /\ instances' = Append(instances, CodeParserInit(language).object[1])
    /\ parser' = CodeParserInit(language).object
    /\ error' = None
    /\ call' = [op |-> "__init__", arg |-> Some(language)]
    /\ code' = <<>>
    /\ tree' = EmptyTree(language)
    /\ result' = None
    /\ UNCHANGED <<hashed, heap, held, collab>>

\* held.append(instances[i].parse(text))
ParseOn(i, text) ==
    /\ Len(held) < MaxHeld
    /\ parser' = Some(instances[i])
    /\ code' = text.code
    /\ tree' = text.tree
    /\ call' = [op |-> "parse", arg |-> Some(text.code)]
    /\ error' = parse(instances[i], text.code, text.tree).raised
    /\ result' = parse(instances[i], text.code, text.tree).value
    /\ IF error' # None
       THEN UNCHANGED <<heap, held, pipeline>>
       ELSE /\ heap' = ReturnDict(result'[1], heap).heap
            /\ held' = Append(held, [parser |-> i,
                                     language |-> instances[i].language,
                                     code |-> text.code,
                                     tree |-> text.tree,
                                     ref |-> ReturnDict(result'[1], heap).ref,
                                     mutated |-> FALSE])
    /\ UNCHANGED <<hashed, instances, collab>>

\* held[k]['summary']['total_lines'] = 0, done by the caller that holds it
MutateSummary(k) ==
    /\ ~held[k].mutated
    /\ heap' = [heap EXCEPT
                   ![heap[held[k].ref].value.summary].value.total_lines = 0]
    /\ held' = [held EXCEPT ![k].mutated = TRUE]
    /\ UNCHANGED <<parser, error, call, code, tree, result, hashed, instances,
                   collab>>

InitPure == Init

NextPure ==
    \/ \E language \in {"python", "javascript"} : ConstructInstance(language)
    \/ \E i \in 1..Len(instances) :
           \E text \in PureTexts(instances[i].language) : ParseOn(i, text)
    \/ \E k \in 1..Len(held) : MutateSummary(k)

SpecPure == InitPure /\ [][NextPure]_vars

(***************************************************************************)
(* Files on their way to the analyzer: uploaded with a request             *)
(* (create_repository) or read from a cloned repository                    *)
(* (extract_code_files), stored as CodeFile rows, and parsed one by one by *)
(* process_repository_background.  A file is its name, the length of its   *)
(* text in characters, whether the text is blank, and whether its bytes    *)
(* are valid UTF-8.                                                        *)
(***************************************************************************)
\* GitHubService.SUPPORTED_EXTENSIONS
SUPPORTED_EXTENSIONS ==
    {<<".", "p", "y">>, <<".", "j", "s">>, <<".", "j", "s", "x">>,
     <<".", "t", "s">>, <<".", "t", "s", "x">>, <<".", "j", "a", "v", "a">>,
     <<".", "c">>, <<".", "h">>, <<".", "c", "p", "p">>,
     <<".", "h", "p", "p">>, <<".", "c", "c">>, <<".", "c", "x", "x">>,
     <<".", "h", "x", "x">>, <<".", "g", "o">>, <<".", "r", "s">>}

\* pathlib's PurePath.suffix of a file name
suffix(name) ==
    LET i == RFind(name, <<".">>)
    IN IF 0 < i /\ i < Len(name) - 1 THEN Slice(name, i, Len(name)) ELSE <<>>

\* the first n elements of seq
Take(seq, n) == SubSeq(seq, 1, IF n < Len(seq) THEN n ELSE Len(seq))

\* extract_code_files without its check of the length
extract_code_filesAnySize(found, max_files) ==
    Take(SelectSeq(found, LAMBDA f :
                              /\ Lower(suffix(f.name)) \in SUPPORTED_EXTENSIONS
                              /\ ~f.blank),
         max_files)

\* GitHubService.extract_code_files, for the files found outside hidden and
\* skipped directories, in the order rglob yields them
extract_code_files(found, max_files) ==
    Take(SelectSeq(found, LAMBDA f :
                              /\ Lower(suffix(f.name)) \in SUPPORTED_EXTENSIONS
                              /\ ~f.blank
                              /\ ~(f.size > LargeFileChars)),
         max_files)

\* the CodeFile rows the loop over the files of a request creates
FileRecords(given, via) ==
    LET kept == SelectSeq(given, LAMBDA f :
                             /\ via = "upload" => f.valid_utf8
                             /\ detect_language(f.name) # None)
    IN [k \in 1..Len(kept) |->
           [file_path |-> kept[k].name,
            language |-> detect_language(kept[k].name)[1],
            size |-> kept[k].size,
            via |-> via,
            status |-> "pending"]]

\* the files a request may bring
IntakeNames ==
    {<<"a", ".", "p", "y">>, <<"a", ".", "t", "x", "t">>, <<"g", "o">>}

IntakeFiles ==
    {f \in [name : IntakeNames, size : {1, LargeFileChars, LargeFileChars + 1},
            blank : BOOLEAN, valid_utf8 : BOOLEAN] :
        /\ f.blank => f.size = 1 /\ f.valid_utf8
        /\ ~f.valid_utf8 => f.size = 1}

RECURSIVE SeqsUpTo(_, _)
SeqsUpTo(S, n) ==
    IF n = 0 THEN {<<>>}
    ELSE SeqsUpTo(S, n - 1)
         \cup {Append(q, x) : q \in {p \in SeqsUpTo(S, n - 1) : Len(p) = n - 1},
                               x \in S}

\* the rows after the loop, the background task started or the request failed
StoreFiles(records) ==
    /\ repo = None
    /\ files' = records
    /\ repo' = Some([total_files |-> Len(records),
                     processed_files |-> 0,
                     status |-> IF records # <<>> THEN "processing"
                                ELSE "failed"])
    /\ UNCHANGED <<parser, error, call, code, tree, result, hashed,
                   instances, heap, held, analyzed, batch_job, items, worker,
                   cancelled, pipeline>>

\* POST /repositories/ with the uploaded files
create_repository(uploads) == StoreFiles(FileRecords(uploads, "upload"))

\* POST /repositories/github: clone, extract_code_files, then the same loop
create_repository_from_github(found, max_files) ==
    StoreFiles(FileRecords(extract_code_files(found, max_files), "github"))

\* one iteration of the loop of process_repository_background: process_file
\* constructs a CodeParser for the file's language and parses its text, and
\* succeeds, reports an error, or raises
ProcessFile(outcome) ==
    /\ repo # None
    /\ repo[1].status = "processing"
    /\ \E k \in 1..Len(files) :
           /\ files[k].status = "pending"
           /\ \A j \in 1..(k - 1) : files[j].status # "pending"
           /\ analyzed' = analyzed \cup {[file_path |-> files[k].file_path,
                                          language |-> files[k].language,
                                          size |-> files[k].size,
                                          via |-> files[k].via]}
           /\ files' = [files EXCEPT
                           ![k].status = IF outcome = "success"
                                         THEN "completed" ELSE "failed"]
    /\ repo' = IF outcome = "raised" THEN repo
               ELSE Some([repo[1] EXCEPT !.processed_files = @ + 1])
    /\ UNCHANGED <<parser, error, call, code, tree, result, hashed,
                   instances, heap, held, batch_job, items, worker, cancelled,
                   pipeline>>

\* the end of process_repository_background
FinishRepository ==
    /\ repo # None
    /\ repo[1].status = "processing"
    /\ \A k \in 1..Len(files) : files[k].status # "pending"
    /\ repo' = Some([repo[1] EXCEPT !.status = "completed"])
    /\ UNCHANGED <<parser, error, call, code, tree, result, hashed,
                   instances, heap, held, files, analyzed, batch_job, items,
                   worker, cancelled, pipeline>>

InitIntake == Init

NextIntake ==
    \/ \E uploads \in SeqsUpTo(IntakeFiles, MaxRequestFiles) :
           create_repository(uploads)
    \/ \E found \in SeqsUpTo(IntakeFiles, MaxRequestFiles),
          max_files \in {1, 100} :
           create_repository_from_github(found, max_files)
    \/ \E outcome \in {"success", "error", "raised"} : ProcessFile(outcome)
    \/ FinishRepository

SpecIntake == InitIntake /\ [][NextIntake]_vars

(***************************************************************************)
(* A batch job, its background processor and its cancellation.             *)
(***************************************************************************)
\* BatchJobService.complete_batch_job
complete_batch_job(job) ==
    [job EXCEPT !.status = IF job.failed_items = job.total_items
                           THEN "failed" ELSE "completed",
                !.completed_at = TRUE,
                !.progress = 100]

\* BatchJob.update_progress, in whole percents
update_progress(job) ==
    [job EXCEPT !.progress = IF job.total_items = 0 THEN 0
                             ELSE (job.completed_items * 100)
                                      \div job.total_items]

\* BatchJobService._update_batch_job_progress, the items being its
BatchJobProgress(job, its) ==
    LET counted ==
            update_progress(
                [job EXCEPT
                    !.completed_items =
                        Cardinality({k \in 1..Len(its) :
                                        its[k].status = "completed"}),
                    !.failed_items =
                        Cardinality({k \in 1..Len(its) :
                                        its[k].status = "failed"})])
    IN IF counted.completed_items + counted.failed_items
              >= counted.total_items
       THEN complete_batch_job(counted)
       ELSE counted

\* POST /batch-jobs/: the job and its items (BatchJobCreate wants at least
\* one) are stored, the background task is scheduled
create_batch_job(source_types) ==
    /\ batch_job = None
    /\ batch_job' = Some([status |-> "pending",
                          total_items |-> Len(source_types),
                          completed_items |-> 0,
                          failed_items |-> 0,
                          progress |-> 0,
                          completed_at |-> FALSE])
    /\ items' = [k \in 1..Len(source_types) |->
                    [source_type |-> source_types[k], status |-> "pending"]]
    /\ worker' = [at |-> "scheduled", item |-> 0]
    /\ UNCHANGED <<parser, error, call, code, tree, result, hashed,
                   instances, heap, held, repo, files, analyzed, cancelled,
                   pipeline>>

\* process_batch_job_background up to its loop: start_batch_job
StartBatchJob ==
    /\ worker.at = "scheduled"
    /\ batch_job' = Some([batch_job[1] EXCEPT !.status = "processing"])
    /\ worker' = [at |-> "loop", item |-> 1]
    /\ UNCHANGED <<parser, error, call, code, tree, result, hashed,
                   instances, heap, held, repo, files, analyzed, items,
                   cancelled, pipeline>>

\* the head of an iteration: update_item_status(item.id, PROCESSING)
MarkItemProcessing ==
    /\ worker.at = "loop"
    /\ worker.item <= Len(items)
    /\ items' = [items EXCEPT ![worker.item].status = "processing"]
    /\ batch_job' = Some(BatchJobProgress(batch_job[1], items'))
    /\ worker' = [worker EXCEPT !.at = "item"]
    /\ UNCHANGED <<parser, error, call, code, tree, result, hashed,
                   instances, heap, held, repo, files, analyzed, cancelled,
                   pipeline>>

\* the status an iteration leaves its item in: a 'github' item fails, since
\* clone_repository(github_url, temp_dir) passes one argument more than
\* GitHubService.clone_repository takes; a 'file' item is skipped; any other
\* source type fails
ItemOutcome(source_type) ==
    IF source_type = "file" THEN "skipped" ELSE "failed"

\* the rest of an iteration
FinishItem ==
    /\ worker.at = "item"
    /\ items' = [items EXCEPT
                    ![worker.item].status =
                        ItemOutcome(items[worker.item].source_type)]
    /\ batch_job' = Some(BatchJobProgress(batch_job[1], items'))
    /\ worker' = [at |-> "loop", item |-> worker.item + 1]
    /\ UNCHANGED <<parser, error, call, code, tree, result, hashed,
                   instances, heap, held, repo, files, analyzed, cancelled,
                   pipeline>>

\* the loop is over
FinishBatchJob ==
    /\ worker.at = "loop"
    /\ worker.item > Len(items)
    /\ worker' = [worker EXCEPT !.at = "done"]
    /\ UNCHANGED <<parser, error, call, code, tree, result, hashed,
                   instances, heap, held, repo, files, analyzed, batch_job,
                   items, cancelled, pipeline>>

\* POST /batch-jobs/{id}/cancel on a job that has not finished
cancel_batch_job ==
    /\ batch_job # None
    /\ batch_job[1].status \notin {"completed", "failed"}
    /\ batch_job' = Some([batch_job[1] EXCEPT !.status = "cancelled",
                                             !.completed_at = TRUE])
    /\ cancelled' = IF cancelled = None /\ batch_job[1].status # "cancelled"
                    THEN Some({k \in 1..Len(items) :
                                  items[k].status = "pending"})
                    ELSE cancelled
    /\ UNCHANGED <<parser, error, call, code, tree, result, hashed,
                   instances, heap, held, repo, files, analyzed, items,
                   worker, pipeline>>

InitBatch == Init

NextBatch ==
    \/ \E source_types \in
              SeqsUpTo({"github", "file", "zip"}, MaxItems) \ {<<>>} :
           create_batch_job(source_types)
    \/ StartBatchJob
    \/ MarkItemProcessing
    \/ FinishItem
    \/ FinishBatchJob
    \/ cancel_batch_job

SpecBatch == InitBatch /\ [][NextBatch]_vars

(***************************************************************************)
(* Source texts of logical expressions, in the shape each grammar gives    *)
(* them: a and b is a boolean_operator node in tree-sitter-python, a && b  *)
(* a binary_expression node in the grammars of the other languages; the    *)
(* operator is a child of the node.                                        *)
(***************************************************************************)
LogicalSpelling(language) ==
    IF language = "python" THEN {"and", "or"} ELSE {"&&", "||"}

LogicalNodeType(language) ==
    IF language = "python" THEN "boolean_operator" ELSE "binary_expression"

\* left operand, operator, right operand
LogicalSnippet(language, op) ==
    <<<<LogicalNodeType(language), 0>>, <<"identifier", 1>>, <<op, 1>>,
      <<"identifier", 1>>>>

\* a logical expression is written at the end of the text, on its own or as
\* the condition of the last node
InsertLogical ==
    \E op \in LogicalSpelling(parser[1].language), depth \in 1..2 :
        Insert(Len(tree) + 1, depth,
               LogicalSnippet(parser[1].language, op), "x", MaxLogicLen)

InitLogic ==
    \E language \in {"python", "javascript", "go"} : Constructed(language)

NextLogic ==
    \/ InsertLogical
    \/ TypeToken("x", "if_statement", 1, MaxLogicLen)
    \/ Parse
    \/ Discard

SpecLogic == InitLogic /\ [][NextLogic]_vars

(***************************************************************************)
(* Source texts whose nodes have texts of their own: a subtree is a        *)
(* sequence of <<type, relative depth, own text>> in document order; a     *)
(* node starts where its own text starts (or, having none, where its       *)
(* first child starts) and ends where the last node of its subtree ends.   *)
(***************************************************************************)
OwnTexts(snippet, n) == Concat([m \in 1..n |-> snippet[m][3]])

\* the tree and the text after the subtree is written at the end of the
\* text, its first node at depth 1
AppendSubtree(t, src, snippet) ==
    LET n == Len(snippet)
        offset == Utf8Len(src)
        Last(m) == Max({j \in m..n :
                           \A i \in (m + 1)..j : snippet[i][2] > snippet[m][2]})
        New_(m) == Node(snippet[m][1], 1 + snippet[m][2],
                        offset + Utf8Len(OwnTexts(snippet, m - 1)),
                        offset + Utf8Len(OwnTexts(snippet, Last(m))))
    IN [tree |-> [k \in 1..(Len(t) + n) |->
                     IF k = 1
                     THEN [t[1] EXCEPT
                              !.start_byte = IF Len(t) = 1 THEN offset ELSE @,
                              !.end_byte =
                                  offset + Utf8Len(OwnTexts(snippet, n))]
                     ELSE IF k <= Len(t) THEN t[k]
                     ELSE New_(k - Len(t))],
        code |-> src \o OwnTexts(snippet, n)]

TypeSubtree(snippet, bound) ==
    /\ parser # None
    /\ call.op = "__init__"
    /\ Len(code) + Len(OwnTexts(snippet, Len(snippet))) <= bound
    /\ tree' = AppendSubtree(tree, code, snippet).tree
    /\ code' = AppendSubtree(tree, code, snippet).code
    /\ UNCHANGED <<parser, error, call, result, hashed, outside>>

(***************************************************************************)
(* Python functions and the string statements of their bodies.             *)
(***************************************************************************)
\* "x" , r"x" and the statement y
PyStatements ==
    {<<<<"expression_statement", 2, <<>>>>,
       <<"string", 3, <<"\"", "x", "\"">>>>>>,
     <<<<"expression_statement", 2, <<>>>>,
       <<"string", 3, <<"r", "\"", "x", "\"">>>>>>,
     <<<<"expression_statement", 2, <<>>>>, <<"identifier", 3, <<"y">>>>>>}

\* def f(): followed by the statements of its body
PyFunction(stmts) ==
    <<<<"function_definition", 0, <<"d">>>>, <<"identifier", 1, <<"f">>>>,
      <<"block", 1, <<>>>>>> \o Concat(stmts)

InitPyDoc == Constructed("python")

NextPyDoc ==
    \/ \E c \in {"x", "U+00E9"} :
           Len(tree) = 1 /\ TypeToken(c, "comment", 1, MaxPyDocLen)
    \/ \E stmts \in SeqsUpTo(PyStatements, 2) :
           stmts # <<>> /\ TypeSubtree(PyFunction(stmts), MaxPyDocLen)
    \/ Parse
    \/ Discard

SpecPyDoc == InitPyDoc /\ [][NextPyDoc]_vars

(***************************************************************************)
(* C function nodes and the children a name may come from, typed in any    *)
(* order.                                                                  *)
(***************************************************************************)
InitName == Constructed("c")

NextName ==
    \/ TypeToken("x", "function_definition", 1, MaxNameLen)
    \/ \E type \in {"function_declarator", "parameter_list",
                    "primitive_type"},
          depth \in 2..3 :
           TypeToken("x", type, depth, MaxNameLen)
    \/ \E c \in {"f", "g"}, depth \in 2..3 :
           TypeToken(c, "identifier", depth, MaxNameLen)
    \/ Parse
    \/ Discard

SpecName == InitName /\ [][NextName]_vars

(***************************************************************************)
(* Go functions and their parameter lists: func f(a T), func f(a, b T),    *)
(* func f(a T) (g, f), the second list holding the named results.          *)
(***************************************************************************)
GoParameterLists ==
    {<<<<"parameter_list", 1, <<"(">>>>, <<"parameter_declaration", 2, <<>>>>,
       <<"identifier", 3, <<"a">>>>, <<"type_identifier", 3, <<"T">>>>>>,
     <<<<"parameter_list", 1, <<"(">>>>, <<"parameter_declaration", 2, <<>>>>,
       <<"identifier", 3, <<"a">>>>, <<",", 3, <<",">>>>,
       <<"identifier", 3, <<"b">>>>, <<"type_identifier", 3, <<"T">>>>>>,
     <<<<"parameter_list", 1, <<"(">>>>, <<"identifier", 2, <<"g">>>>,
       <<",", 2, <<",">>>>, <<"identifier", 2, <<"f">>>>>>}

GoFunction(lists) ==
    <<<<"function_declaration", 0, <<"x">>>>, <<"identifier", 1, <<"f">>>>>>
    \o Concat(lists)

InitParams == Constructed("go")

NextParams ==
    \/ \E lists \in SeqsUpTo(GoParameterLists, 2) :
           TypeSubtree(GoFunction(lists), MaxParamLen)
    \/ TypeSpace("\n", MaxParamLen)
    \/ Parse
    \/ Discard

SpecParams == InitParams /\ [][NextParams]_vars

(***************************************************************************)
(* Python classes whose methods are plain (def f) or decorated (@ def g):  *)
(* tree-sitter-python wraps a decorated method in a decorated_definition   *)
(* node, a child of the class's block.                                     *)
(***************************************************************************)
PyMembers ==
    {<<<<"function_definition", 2, <<"d">>>>, <<"identifier", 3, <<"f">>>>>>,
     <<<<"decorated_definition", 2, <<>>>>, <<"decorator", 3, <<"@">>>>,
       <<"function_definition", 3, <<"d">>>>, <<"identifier", 4, <<"g">>>>>>}

PyClass(members) ==
    <<<<"class_definition", 0, <<"c">>>>, <<"identifier", 1, <<"C">>>>,
      <<"block", 1, <<>>>>>> \o Concat(members)

InitMethods == Constructed("python")

NextMethods ==
    \/ \E members \in SeqsUpTo(PyMembers, 2) :
           members # <<>> /\ TypeSubtree(PyClass(members), MaxMethodsLen)
    \/ TypeSpace("\n", MaxMethodsLen)
    \/ Parse
    \/ Discard

SpecMethods == InitMethods /\ [][NextMethods]_vars

(***************************************************************************)
(* Go declarations: type T struct { }, a method of T with its receiver,    *)
(* a function, and a function that declares a type in its body.           *)
(***************************************************************************)
GoDeclarations ==
    {<<<<"type_declaration", 0, <<"t">>>>, <<"type_spec", 1, <<>>>>,
       <<"type_identifier", 2, <<"T">>>>, <<"struct_type", 2, <<"s">>>>,
       <<"field_declaration_list", 3, <<"{">>>>>>,
     <<<<"method_declaration", 0, <<"x">>>>, <<"parameter_list", 1, <<"(">>>>,
       <<"parameter_declaration", 2, <<>>>>, <<"identifier", 3, <<"a">>>>,
       <<"type_identifier", 3, <<"T">>>>, <<"field_identifier", 1, <<"m">>>>,
       <<"block", 1, <<"{">>>>>>,
     <<<<"function_declaration", 0, <<"x">>>>, <<"identifier", 1, <<"f">>>>,
       <<"block", 1, <<"{">>>>>>,
     <<<<"function_declaration", 0, <<"x">>>>, <<"identifier", 1, <<"g">>>>,
       <<"block", 1, <<"{">>>>, <<"type_declaration", 2, <<"t">>>>,
       <<"type_spec", 3, <<>>>>, <<"type_identifier", 4, <<"T">>>>,
       <<"type_identifier", 4, <<"U">>>>>>}

InitGoTypes == Constructed("go")

NextGoTypes ==
    \/ \E declaration \in GoDeclarations :
           TypeSubtree(declaration, MaxGoLen)
    \/ TypeSpace("\n", MaxGoLen)
    \/ Parse
    \/ Discard

SpecGoTypes == InitGoTypes /\ [][NextGoTypes]_vars

(***************************************************************************)
(* DocumentationPipeline.process_repository: one task per file, all        *)
(* started by asyncio.gather on one event loop, each holding the           *)
(* semaphore while process_file runs.  A file is its path, its language    *)
(* and what goes wrong with it apart from its language, if anything.       *)
(***************************************************************************)
\* the semaphore lets a task in (not Semaphore.locked())
CanAcquireAlways(sem) == TRUE

CanAcquire(sem) == sem.value > 0

acquire(sem) == [sem EXCEPT !.value = @ - 1]

\* a slot given back only by a task whose file succeeded
releaseOnSuccess(sem, returned) ==
    IF returned.status = "success" THEN [sem EXCEPT !.value = @ + 1] ELSE sem

\* leaving the async with block, whatever process_file returned
release(sem, returned) == [sem EXCEPT !.value = @ + 1]

\* what process_file returns: every exception raised on the way, the
\* ValueError of CodeParser(language) included, becomes an error result
process_file(file) ==
    IF CodeParserInit(file.language).raised # None \/ file.fails # "nothing"
    THEN [status |-> "error", file_path |-> file.path]
    ELSE [status |-> "success", file_path |-> file.path]

\* a file that succeeds, one in an unsupported language, one whose parse
\* raises, and one whose AI call raises
PipelineFiles ==
    {[language |-> "python", fails |-> "nothing"],
     [language |-> "cobol", fails |-> "nothing"],
     [language |-> "python", fails |-> "parse"],
     [language |-> "python", fails |-> "ai"]}

\* results = await pipeline.process_repository(files, max_concurrent), up
\* to the point where gather has created the tasks
process_repository(given, max_concurrent) ==
    /\ semaphore = None
    /\ semaphore' = Some([limit |-> max_concurrent, value |-> max_concurrent])
    /\ tasks' = [k \in 1..Len(given) |->
                    [file |-> [path |-> k, language |-> given[k].language,
                               fails |-> given[k].fails],
                     at |-> "waiting",
                     result |-> None]]
    /\ UNCHANGED <<parser, error, call, code, tree, result, hashed,
                   instances, heap, held, repo, files, analyzed, batch_job,
                   items, worker, cancelled, results>>

\* task k enters the async with block: waiters are served in the order in
\* which the tasks were created
EnterSemaphore(k) ==
    /\ tasks[k].at = "waiting"
    /\ \A j \in 1..(k - 1) : tasks[j].at # "waiting"
    /\ CanAcquire(semaphore[1])
    /\ semaphore' = Some(acquire(semaphore[1]))
    /\ tasks' = [tasks EXCEPT ![k].at = "running"]
    /\ UNCHANGED <<parser, error, call, code, tree, result, hashed,
                   instances, heap, held, repo, files, analyzed, batch_job,
                   items, worker, cancelled, results>>

\* process_file returns in task k, and the task leaves the block
LeaveSemaphore(k) ==
    /\ tasks[k].at = "running"
    /\ tasks' = [tasks EXCEPT ![k].at = "done",
                              ![k].result = Some(process_file(tasks[k].file))]
    /\ semaphore' = Some(release(semaphore[1], process_file(tasks[k].file)))
    /\ UNCHANGED <<parser, error, call, code, tree, result, hashed,
                   instances, heap, held, repo, files, analyzed, batch_job,
                   items, worker, cancelled, results>>

\* gather has every task's result: process_repository returns them
ReturnResults ==
    /\ semaphore # None
    /\ results = None
    /\ \A k \in 1..Len(tasks) : tasks[k].at = "done"
    /\ results' = Some([k \in 1..Len(tasks) |-> tasks[k].result[1]])
    /\ UNCHANGED <<parser, error, call, code, tree, result, hashed,
                   instances, heap, held, repo, files, analyzed, batch_job,
                   items, worker, cancelled, semaphore, tasks>>

InitPipeline == Init

NextPipeline ==
    \/ \E given \in SeqsUpTo(PipelineFiles, MaxPipelineFiles),
          max_concurrent \in 1..MaxConcurrent :
           process_repository(given, max_concurrent)
    \/ \E k \in 1..Len(tasks) : EnterSemaphore(k)
    \/ \E k \in 1..Len(tasks) : LeaveSemaphore(k)
    \/ ReturnResults

SpecPipeline == InitPipeline /\ [][NextPipeline]_vars

\* the event loop runs every task that can run, and every call that
\* process_file awaits returns or raises
SpecPipelineLive ==
    /\ InitPipeline
    /\ [][NextPipeline]_vars
    /\ \A k \in 1..MaxPipelineFiles :
           /\ WF_vars(k \in 1..Len(tasks) /\ EnterSemaphore(k))
           /\ WF_vars(k \in 1..Len(tasks) /\ LeaveSemaphore(k))
    /\ WF_vars(ReturnResults)

(***************************************************************************)
(* The claims.                                                             *)
(***************************************************************************)
ParseReturned == call.op = "parse" /\ result # None

\* C1: constructing a CodeParser succeeds for each of the eight supported ids
\* and yields a parser of that language; for any other string it raises an
\* error whose message contains that string, and no parser is produced.
C1_ConstructSucceedsOrRaises ==
    call.op = "__init__" =>
        LET language == call.arg[1]
        IN IF language \in {"python", "javascript", "typescript", "java",
                            "c", "cpp", "go", "rust"}
           THEN /\ error = None
                /\ parser # None
                /\ parser[1].language = language
           ELSE /\ parser = None
                /\ error # None
                /\ \E k \in DOMAIN error[1].message :
                       error[1].message[k] = language

C1_UnsupportedRaised ==
    /\ call = [op |-> "__init__", arg |-> Some("ruby")]
    /\ parser = None
    /\ error # None

\* C2: parse never raises, whatever the source text: every call returns a
\* record with exactly the keys functions, classes, imports, complexity and
\* summary, and the only error ever raised is the unsupported-language error
\* of the constructor.
C2_ParseNeverRaises ==
    /\ call.op = "parse" =>
           /\ error = None
           /\ result # None
           /\ DOMAIN result[1] =
                  {"functions", "classes", "imports", "complexity", "summary"}
    /\ error # None => call.op = "__init__"

\* C3: parsing the empty source text returns functions = [], classes = [],
\* imports = [], complexity = 1 and summary.total_lines >= 1, without raising.
C3_EmptySource ==
    (call.op = "parse" /\ code = <<>>) =>
        /\ error = None
        /\ result # None
        /\ result[1].functions = <<>>
        /\ result[1].classes = <<>>
        /\ result[1].imports = <<>>
        /\ result[1].complexity = 1
        /\ result[1].summary.total_lines >= 1

C3_EmptyParsed ==
    /\ ParseReturned
    /\ code = <<>>
    /\ parser[1].language = "rust"

\* C4: the functions list and the classes list each correspond one-to-one, in
\* document order, with the nodes that match the language's function query and
\* class query: as many entries as matching nodes, the k-th entry being that
\* of the k-th matching node.
C4_OneEntryPerMatch ==
    ParseReturned =>
        LET matched(types) == {i \in 1..Len(tree) : tree[i].type \in types}
            rank(S, i) == Cardinality({j \in S : j <= i})
            InOrder(entries, S) ==
                /\ Len(entries) = Cardinality(S)
                /\ \A i \in S :
                      /\ entries[rank(S, i)].start_line
                             = start_point_row(tree, code, i) + 1
                      /\ entries[rank(S, i)].end_line
                             = end_point_row(tree, code, i) + 1
        IN /\ InOrder(result[1].functions,
                      matched(_get_function_query(parser[1].language)))
           /\ InOrder(result[1].classes,
                      matched(_get_class_query(parser[1].language)))

\* Python source with two top-level defs on two lines
C4_TwoTopLevelDefs ==
    /\ ParseReturned
    /\ parser[1].language = "python"
    /\ [k \in 1..Len(tree) |-> <<tree[k].type, tree[k].depth>>]
           = <<<<"module", 0>>, <<"function_definition", 1>>,
               <<"function_definition", 1>>>>
    /\ Len(result[1].functions) = 2
    /\ result[1].functions[1].start_line = 1
    /\ result[1].functions[2].start_line = 2

\* node j is a child of node i
ChildOf(t, i, j) ==
    /\ i < j
    /\ t[j].depth = t[i].depth + 1
    /\ \A k \in (i + 1)..j : t[k].depth > t[i].depth

\* the decision constructs of a tree: the nodes of the fixed decision set and
\* the binary expressions with a logical AND/OR operator child
DecisionSet ==
    {"if_statement", "if_expression", "elif_clause", "else_clause",
     "while_statement", "for_statement", "for_in_statement", "for_range_loop",
     "loop_expression", "switch_statement", "case_statement",
     "match_expression", "try_statement", "catch_clause",
     "conditional_expression", "ternary_expression"}

IsLogicalBinary(t, i) ==
    /\ t[i].type = "binary_expression"
    /\ \E j \in 1..Len(t) :
           ChildOf(t, i, j) /\ t[j].type \in {"&&", "||", "and", "or"}

DecisionConstructs(t) ==
    {i \in 1..Len(t) : t[i].type \in DecisionSet \/ IsLogicalBinary(t, i)}

\* C5: complexityOf = 1 + the number of nodes of the decision set + the number
\* of binary expressions with a logical AND/OR operator child (an arithmetic
\* or comparison one adds 0, a logical one exactly 1); always an integer >= 1.
C5_ComplexityCount ==
    ParseReturned =>
        /\ result[1].complexity
               = 1 + Cardinality({i \in 1..Len(tree) :
                                     tree[i].type \in DecisionSet})
                   + Cardinality({i \in 1..Len(tree) :
                                     IsLogicalBinary(tree, i)})
        /\ result[1].complexity \in Nat \ {0}

C5_LogicalAndComparison ==
    /\ ParseReturned
    /\ \E i \in 1..Len(tree) : IsLogicalBinary(tree, i)
    /\ \E i \in 1..Len(tree) :
           tree[i].type = "binary_expression" /\ ~IsLogicalBinary(tree, i)
    /\ result[1].complexity = 2

\* C6: adding a subtree to a tree never lowers the complexity and raises it
\* strictly when the added subtree contains a decision construct.
C6_Monotonic ==
    [][(tree # <<>> /\ Len(tree') > Len(tree)) =>
          LET n == Len(tree') - Len(tree)
              Same(a, b) == a.type = b.type /\ a.depth = b.depth
              \* tree' is tree with one subtree added at position at
              AddedAt(at) ==
                  /\ \A k \in 1..(at - 1) : Same(tree'[k], tree[k])
                  /\ \A k \in at..Len(tree) : Same(tree'[k + n], tree[k])
                  /\ \A k \in (at + 1)..(at + n - 1) :
                         tree'[k].depth > tree'[at].depth
                  /\ at + n <= Len(tree') =>
                         tree'[at + n].depth <= tree'[at].depth
              Decides(at) ==
                  \E k \in at..(at + n - 1) : k \in DecisionConstructs(tree')
          IN \A at \in 2..(Len(tree) + 1) :
                 AddedAt(at) =>
                     /\ _calculate_complexity(tree')
                            >= _calculate_complexity(tree)
                     /\ Decides(at) =>
                            _calculate_complexity(tree')
                                > _calculate_complexity(tree)]_vars

\* an if nested in a for nested in another if
C6_IfForIf ==
    /\ ParseReturned
    /\ [k \in 1..Len(tree) |-> <<tree[k].type, tree[k].depth>>]
           = <<<<"module", 0>>, <<"if_statement", 1>>, <<"for_statement", 2>>,
               <<"if_statement", 3>>>>
    /\ parser[1].language = "python"
    /\ result[1].complexity = 4

\* C7: summaryOf returns total_lines = newline count + 1 (>= 1),
\* non_empty_lines = the number of lines with a non-whitespace character
\* (between 0 and total_lines), node_count = the total number of nodes (>= 1)
\* and max_depth = the length of the longest root-to-leaf path.
C7_Summary ==
    ParseReturned =>
        LET summary == result[1].summary
            newlines == {k \in 1..Len(code) : code[k] = "\n"}
            row(k) == Cardinality({m \in newlines : m < k})
            inked == {k \in 1..Len(code) :
                         code[k] \notin {" ", "\n", "\t", "\r"}}
        IN /\ summary.total_lines = Cardinality(newlines) + 1
           /\ summary.total_lines >= 1
           /\ summary.non_empty_lines = Cardinality({row(k) : k \in inked})
           /\ summary.non_empty_lines \in 0..summary.total_lines
           /\ summary.node_count = Len(tree)
           /\ summary.node_count >= 1
           /\ summary.max_depth
                  = Max({tree[k].depth : k \in 1..Len(tree)})

\* two nested nodes on the first of two lines, the second line empty
C7_BlankLineAndNesting ==
    /\ ParseReturned
    /\ result[1].summary.total_lines = 2
    /\ result[1].summary.non_empty_lines = 1
    /\ result[1].summary.node_count = 3
    /\ result[1].summary.max_depth = 2

HasDot(filename) == \E k \in 1..Len(filename) : filename[k] = "."

\* the text after the last '.' of a file name that has one
AfterLastDot(filename) ==
    LET last == Max({k \in 1..Len(filename) : filename[k] = "."})
    IN [k \in 1..(Len(filename) - last) |-> filename[last + k]]

\* the table of the claim: extension -> language
C8_Table ==
    {<<<<"p", "y">>, "python">>,
     <<<<"j", "s">>, "javascript">>,
     <<<<"j", "s", "x">>, "javascript">>,
     <<<<"t", "s">>, "typescript">>,
     <<<<"t", "s", "x">>, "typescript">>,
     <<<<"j", "a", "v", "a">>, "java">>,
     <<<<"c">>, "c">>,
     <<<<"h">>, "c">>,
     <<<<"c", "p", "p">>, "cpp">>,
     <<<<"c", "c">>, "cpp">>,
     <<<<"c", "x", "x">>, "cpp">>,
     <<<<"h", "p", "p">>, "cpp">>,
     <<<<"h", "x", "x">>, "cpp">>,
     <<<<"g", "o">>, "go">>,
     <<<<"r", "s">>, "rust">>}

\* C8: detectLanguage takes the text after the last '.', lower-cases it and
\* returns the language the fixed table maps it to, regardless of the case of
\* the extension and of earlier dots; for every other extension it returns
\* absent, without raising.
C8_DetectByExtension ==
    (call.op = "detect_language" /\ HasDot(call.arg[1])) =>
        LET ext == Lower(AfterLastDot(call.arg[1]))
            hits == {e \in C8_Table : e[1] = ext}
        IN /\ error = None
           /\ result # None
           /\ \A e \in hits : result[1] = <<e[2]>>
           /\ hits = {} => result[1] = <<>>

C8_UpperCaseAfterEarlierDot ==
    /\ call = [op |-> "detect_language", arg |-> Some(<<"a", ".", "b", ".", "P", "Y">>)]
    /\ result = Some(Some("python"))

\* C9: detectLanguage returns absent for every file name that contains no '.'
\* (the empty name and names such as "go", "c" or "java" included), and never
\* raises.
C9_NoExtensionAbsent ==
    (call.op = "detect_language" /\ ~HasDot(call.arg[1])) =>
        /\ error = None
        /\ result = Some(None)

\* C10: get_content_hash is deterministic and of fixed shape: calls with
\* equal text return equal digests, whatever parser was at hand and whatever
\* was called before; the digest is exactly 64 hexadecimal characters; the
\* call raises nothing.
C10_HashDeterministic ==
    /\ \A h1 \in hashed, h2 \in hashed :
           h1.text = h2.text => h1.digest = h2.digest
    /\ \A h \in hashed :
           /\ Len(h.digest) = 64
           /\ \A k \in 1..Len(h.digest) :
                  \E d \in 1..16 : HexDigits[d] = h.digest[k]
    /\ call.op = "get_content_hash" =>
           /\ error = None
           /\ result # None
           /\ \E h \in hashed : h.text = call.arg[1] /\ h.digest = result[1]

\* "abc" was hashed without a parser and with one, another text in between,
\* and the latest call returned the digest of "abc"
C10_SameTextTwoParsers ==
    /\ call.op = "get_content_hash"
    /\ call.arg = Some(<<"a", "b", "c">>)
    /\ parser # None
    /\ \E h \in hashed : h.text = <<"a", "b", "c">> /\ h.parser = None
    /\ \E h \in hashed : h.text = <<"a", "b", "c">> /\ h.parser # None
    /\ \E h \in hashed : h.text = <<"a", "b", "d">>
    /\ SubSeq(result[1], 1, 8) = <<"b", "a", "7", "8", "1", "6", "b", "f">>

\* the class nodes of a tree, in document order
ClassNodes == Captures(tree, _get_class_query(parser[1].language))

\* the method-shaped nodes of class node c: below c, with nothing but body
\* containers between c and them
MethodMembers(t, c) ==
    {j \in (c + 1)..SubtreeEnd(t, c) :
        /\ t[j].type \in {"function_definition", "method_definition",
                          "method_declaration", "function_declaration",
                          "function_item"}
        /\ \A a \in (c + 1)..(j - 1) :
               SubtreeEnd(t, a) >= j =>
                   t[a].type \in {"block", "class_body", "declaration_list",
                                  "field_declaration_list"}}

\* the name a method is declared with: the text of its name child
DeclaredName(t, src, j) ==
    LET named == {k \in (j + 1)..SubtreeEnd(t, j) :
                     /\ t[k].depth = t[j].depth + 1
                     /\ t[k].type \in {"identifier", "property_identifier"}}
    IN NodeText(t, src, Min(named))

\* C11: every method-shaped node of a class contributes exactly one entry to
\* that class's methods list, in document order: a JavaScript class with two
\* methods yields exactly the two method names.
C11_OneEntryPerMethod ==
    ParseReturned =>
        \A k \in 1..Len(ClassNodes) :
            LET members == SortedSeq(MethodMembers(tree, ClassNodes[k]))
            IN result[1].classes[k].methods
                   = [m \in 1..Len(members) |->
                         DeclaredName(tree, code, members[m])]

\* the same, for the classes whose methods are named by an identifier child
C11_PythonMethods ==
    (ParseReturned /\ parser[1].language = "python") => C11_OneEntryPerMethod

\* a Python class with two methods f and g, parsed
C11_PythonTwoMethods ==
    /\ ParseReturned
    /\ parser[1].language = "python"
    /\ Len(result[1].classes) = 1
    /\ result[1].classes[1].methods = <<<<"f">>, <<"g">>>>

\* the function nodes of a tree, in document order
FunctionNodes == Captures(tree, _get_function_query(parser[1].language))

\* C12: a function-like node with no name identifier of its own is reported
\* with the name "anonymous", whatever its parameters look like.  An arrow
\* function never has a name of its own: an identifier child of it is its
\* one unparenthesized parameter (x => ...) or its expression body (... => x).
C12_ArrowIsAnonymous ==
    ParseReturned =>
        \A k \in 1..Len(FunctionNodes) :
            tree[FunctionNodes[k]].type = "arrow_function" =>
                result[1].functions[k].name
                    = <<"a", "n", "o", "n", "y", "m", "o", "u", "s">>

\* C13: every function and class entry of a parse result satisfies
\* 1 <= start_line <= end_line <= total_lines, start_line and end_line being
\* the node's 0-indexed start and end rows plus one.
C13_LineBounds ==
    ParseReturned =>
        LET Bounded(entries, nodes) ==
                \A k \in 1..Len(entries) :
                    /\ 1 <= entries[k].start_line
                    /\ entries[k].start_line <= entries[k].end_line
                    /\ entries[k].end_line <= result[1].summary.total_lines
                    /\ entries[k].start_line
                           = RowOf(code, tree[nodes[k]].start_byte) + 1
                    /\ entries[k].end_line
                           = RowOf(code, tree[nodes[k]].end_byte) + 1
        IN /\ Bounded(result[1].functions, FunctionNodes)
           /\ Bounded(result[1].classes, ClassNodes)

\* a function that starts on line 1 and ends on line 2, the last line, and
\* a class on line 2
C13_SpansTwoLines ==
    /\ ParseReturned
    /\ result[1].summary.total_lines = 2
    /\ \E k \in 1..Len(result[1].functions) :
           /\ result[1].functions[k].start_line = 1
           /\ result[1].functions[k].end_line = 2
    /\ \E k \in 1..Len(result[1].classes) :
           result[1].classes[k].start_line = 2

\* the characters of a source text that lie in the bytes [from, to) of its
\* UTF-8 encoding
TextOfBytes(src, from, to) ==
    SubSeq(src, CharsBefore(src, from) + 1, CharsBefore(src, to))

\* C14: for every UTF-8 source text, multi-byte characters before a statement
\* included, each entry of imports is the source text of one matched import
\* node with surrounding white space removed, in source order, one per node.
C14_ImportsVerbatim ==
    ParseReturned =>
        LET nodes == Captures(tree, _get_import_query(parser[1].language))
        IN result[1].imports
               = [k \in 1..Len(nodes) |->
                     Strip(TextOfBytes(code, tree[nodes[k]].start_byte,
                                       tree[nodes[k]].end_byte))]

\* the same, for the texts of one-byte characters
C14_AsciiImportsVerbatim ==
    (\A k \in 1..Len(code) : Utf8Width(code[k]) = 1) => C14_ImportsVerbatim

\* two imports on two lines of one-byte characters, parsed
C14_TwoAsciiImports ==
    /\ ParseReturned
    /\ code = <<"f", "\n", "g">>
    /\ result[1].imports = <<<<"f">>, <<"g">>>>

\* a block comment opening with /** ends right before the byte offset start,
\* with nothing but whitespace in between
ImmediatelyPrecededByDocComment(t, src, start) ==
    \E j \in 1..Len(t) :
        /\ t[j].type = "comment"
        /\ t[j].end_byte <= start
        /\ StartsWith(TextOfBytes(src, t[j].start_byte, t[j].end_byte),
                      <<"/", "*", "*">>)
        /\ Strip(TextOfBytes(src, t[j].end_byte, start)) = <<>>

\* C15: in JavaScript and TypeScript a function has a docstring only when a
\* /** ... */ comment immediately precedes its start; a function not
\* immediately preceded by such a comment has none, whatever comments stand
\* earlier in the text.
C15_DocstringOnlyFromAdjacentComment ==
    (ParseReturned /\ parser[1].language \in {"javascript", "typescript"}) =>
        \A k \in 1..Len(FunctionNodes) :
            ~ImmediatelyPrecededByDocComment(
                  tree, code, tree[FunctionNodes[k]].start_byte)
                => result[1].functions[k].docstring = None

\* no decoration is left in a docstring: none of its lines starts with /**
\* or *, none is a lone /, and the closer */ occurs nowhere
DecorationStripped(doc) ==
    /\ Find(doc, <<"*", "/">>, 0) = -1
    /\ \A k \in 1..Len(SplitLines(doc)) :
           LET line == SplitLines(doc)[k]
           IN /\ ~StartsWith(line, <<"/", "*", "*">>)
              /\ ~StartsWith(line, <<"*">>)
              /\ line # <<"/">>

\* C16: in JavaScript, TypeScript and Java the docstring of a function is the
\* preceding block comment without its decoration: no line of it starts with
\* /** or *, it holds no */ and no line that is only /.
C16_DecorationStripped ==
    (ParseReturned
        /\ parser[1].language \in {"javascript", "typescript", "java"}) =>
        \A k \in 1..Len(FunctionNodes) :
            result[1].functions[k].docstring # None
                => DecorationStripped(result[1].functions[k].docstring[1])

\* the result dict at address a, with its lists and its summary read out
Deref(h, a) ==
    [functions |-> h[h[a].value.functions].value,
     classes |-> h[h[a].value.classes].value,
     imports |-> h[h[a].value.imports].value,
     complexity |-> h[a].value.complexity,
     summary |-> h[h[a].value.summary].value]

\* the addresses of the result dict at a and of its mutable parts
Parts(h, a) ==
    {a, h[a].value.functions, h[a].value.classes, h[a].value.imports,
     h[a].value.summary}

\* C17: parse carries no state between calls: whatever calls were made
\* before, on the same parser or on others, a result nobody has mutated
\* equals what a fresh parser of that language returns for that text, and no
\* two results share a dict or list, so that mutating the summary of one
\* changes no other.
C17_ParseIsPure ==
    \A k \in 1..Len(held) :
        /\ ~held[k].mutated =>
               Deref(heap, held[k].ref)
                   = parse(CodeParserInit(held[k].language).object[1],
                           held[k].code, held[k].tree).value[1]
        /\ \A j \in 1..Len(held) :
               j # k => Parts(heap, held[j].ref) \cap Parts(heap, held[k].ref)
                            = {}

\* one text parsed on the first parser, on the second and on the first
\* again, the second parse being of another text or not, and the first
\* result mutated by its holder
C17_InterleavedThenMutated ==
    /\ Len(held) = 3
    /\ held[1].parser = 1 /\ held[2].parser = 2 /\ held[3].parser = 1
    /\ held[1].code # <<>>
    /\ held[3].code = held[1].code
    /\ held[2].language = held[1].language
    /\ held[2].code = held[1].code
    /\ held[1].mutated /\ ~held[2].mutated /\ ~held[3].mutated

\* C18: every text handed to the analyzer, uploaded or cloned, comes from a
\* file with a supported extension and is at most 500,000 characters long.
C18_OnlyGatedFilesAnalyzed ==
    \A a \in analyzed :
        /\ Lower(suffix(a.file_path)) \in SUPPORTED_EXTENSIONS
        /\ a.size <= LargeFileChars

\* C18, for cloned repositories only: extract_code_files lets through no
\* file with an unsupported extension and none longer than 500,000
\* characters.
C18_ClonedFilesGated ==
    \A a \in analyzed :
        a.via = "github" =>
            /\ Lower(suffix(a.file_path)) \in SUPPORTED_EXTENSIONS
            /\ a.size <= LargeFileChars

\* a cloned file of exactly 500,000 characters was analyzed
C18_ClonedAtThreshold ==
    \E a \in analyzed : a.via = "github" /\ a.size = LargeFileChars

\* C19: once cancel_batch_job has succeeded on a pending or processing job,
\* no item of the job that was pending at that moment is moved to
\* processing or completed by the background processor.
C19_CancelStopsRemainingItems ==
    cancelled # None =>
        \A k \in cancelled[1] :
            items[k].status \notin {"processing", "completed"}

\* the logical AND/OR expressions of a text of the language
LogicalExpressions(language, t) ==
    {i \in 1..Len(t) :
        /\ t[i].type = LogicalNodeType(language)
        /\ \E j \in 1..Len(t) :
               ChildOf(t, i, j) /\ t[j].type \in LogicalSpelling(language)}

\* C20: in every supported language each logical AND/OR expression of the
\* source, in that language's spelling, raises the complexity by exactly
\* one: the score is 1 + the decision nodes + the logical expressions.
C20_LogicalCountsOne ==
    ParseReturned =>
        result[1].complexity
            = 1 + Cardinality({i \in 1..Len(tree) :
                                  tree[i].type \in DecisionSet})
                + Cardinality(LogicalExpressions(parser[1].language, tree))

\* C20, for the grammars that spell the operators && and ||
C20_CFamilyLogicalCountsOne ==
    (ParseReturned /\ parser[1].language # "python") =>
        result[1].complexity
            = 1 + Cardinality({i \in 1..Len(tree) :
                                  tree[i].type \in DecisionSet})
                + Cardinality(LogicalExpressions(parser[1].language, tree))

\* if (a && b) { } followed by c || d, in Go
C20_GoIfAndThenOr ==
    /\ ParseReturned
    /\ parser[1].language = "go"
    /\ Cardinality(LogicalExpressions("go", tree)) = 2
    /\ \E i \in 1..Len(tree) : tree[i].type = "if_statement"
    /\ result[1].complexity = 4

\* the string nodes of the statements of the body of function i that are a
\* bare string expression, in source order
BareStringStatements(t, i) ==
    LET blocks == SelectSeq(children(t, i), LAMBDA j : t[j].type = "block")
        stmts == Concat([k \in 1..Len(blocks) |-> children(t, blocks[k])])
        bare == SelectSeq(stmts, LAMBDA j :
                    /\ t[j].type = "expression_statement"
                    /\ Len(children(t, j)) = 1
                    /\ t[children(t, j)[1]].type = "string")
    IN [k \in 1..Len(bare) |-> children(t, bare[k])[1]]

\* a string literal without its prefix and its quote characters
StringValue(literal) ==
    LET quotes == {k \in 1..Len(literal) : literal[k] \in {"\"", "'"}}
    IN SubSeq(literal, Min(quotes) + 1, Max(quotes) - 1)

\* C21: the docstring of a Python function is the text of the first
\* statement of its body that is a bare string expression, without the
\* surrounding quote characters and whitespace; it is absent when the body
\* has no such statement.
C21_PythonDocstring ==
    (ParseReturned /\ parser[1].language = "python") =>
        \A k \in 1..Len(FunctionNodes) :
            LET strings == BareStringStatements(tree, FunctionNodes[k])
                first == tree[strings[1]]
            IN result[1].functions[k].docstring
                   = IF strings = <<>> THEN None
                     ELSE Some(Strip(StringValue(
                              TextOfBytes(code, first.start_byte,
                                          first.end_byte))))

\* C21, for literals without a prefix in a text of one-byte characters
C21_PlainDocstring ==
    (ParseReturned /\ parser[1].language = "python"
        /\ \A k \in 1..Len(code) : code[k] \in Ascii \ {"r"}) =>
        \A k \in 1..Len(FunctionNodes) :
            LET strings == BareStringStatements(tree, FunctionNodes[k])
                first == tree[strings[1]]
            IN result[1].functions[k].docstring
                   = IF strings = <<>> THEN None
                     ELSE Some(Strip(StringValue(
                              TextOfBytes(code, first.start_byte,
                                          first.end_byte))))

\* a function whose body is the statement y followed by "x"
C21_StringAfterStatement ==
    /\ ParseReturned
    /\ code = <<"d", "f", "y", "\"", "x", "\"">>
    /\ result[1].functions[1].docstring = Some(<<"x">>)

\* the name by the two-phase chain: the first identifier child; failing
\* that, the first identifier inside a declarator child; failing that,
\* "anonymous"
TwoPhaseName(t, src, i) ==
    LET kids == children(t, i)
        ids == SelectSeq(kids, LAMBDA j : t[j].type = "identifier")
        nested ==
            Concat([k \in 1..Len(kids) |->
                       IF t[kids[k]].type \in Declarators
                       THEN SelectSeq(children(t, kids[k]),
                                      LAMBDA j : t[j].type = "identifier")
                       ELSE <<>>])
    IN IF ids # <<>> THEN NodeText(t, src, ids[1])
       ELSE IF nested # <<>> THEN NodeText(t, src, nested[1])
       ELSE ANONYMOUS

ParameterLists(t, i) ==
    LET kids == children(t, i)
    IN Concat([k \in 1..Len(kids) |->
                  IF t[kids[k]].type \in ParamNodeTypes THEN <<kids[k]>>
                  ELSE IF t[kids[k]].type \in Declarators
                  THEN SelectSeq(children(t, kids[k]),
                                 LAMBDA j : t[j].type \in ParamNodeTypes)
                  ELSE <<>>])

\* the identifier children of the list p and the first identifier of each of
\* its typed-parameter-shaped children, in declaration order
ListedParams(t, src, p) ==
    LET kids == children(t, p)
        Ids(j) == SelectSeq(children(t, j),
                            LAMBDA m : t[m].type = "identifier")
    IN Concat([k \in 1..Len(kids) |->
                  IF t[kids[k]].type = "identifier"
                  THEN <<NodeText(t, src, kids[k])>>
                  ELSE IF t[kids[k]].type
                              \in {"typed_parameter", "parameter_declaration",
                                   "formal_parameter"}
                          /\ Ids(kids[k]) # <<>>
                  THEN <<NodeText(t, src, Ids(kids[k])[1])>>
                  ELSE <<>>])

\* C23: the params of a function come from one parameter-list-shaped node
\* and from nothing else: identifiers of a second list of the node, such as
\* the named results, are not among them.
C23_ParamsFromOneList ==
    ParseReturned =>
        \A k \in 1..Len(FunctionNodes) :
            LET lists == ParameterLists(tree, FunctionNodes[k])
            IN result[1].functions[k].params
                   = IF lists = <<>> THEN <<>>
                     ELSE ListedParams(tree, code, lists[1])

\* C23, for functions with at most one parameter-list-shaped node
C23_SingleListParams ==
    ParseReturned =>
        \A k \in 1..Len(FunctionNodes) :
            LET lists == ParameterLists(tree, FunctionNodes[k])
            IN Len(lists) <= 1 =>
                   result[1].functions[k].params
                       = IF lists = <<>> THEN <<>>
                         ELSE ListedParams(tree, code, lists[1])

\* func f(a, b T): the second name of the declaration is not reported
C23_FirstNameOfDeclaration ==
    /\ ParseReturned
    /\ code = <<"x", "f", "(", "a", ",", "b", "T">>
    /\ result[1].functions[1].params = <<<<"a">>>>

\* the named function-shaped nodes below class node c that stand inside one
\* of its body containers, wrapped or not
NamedMethodsBelow(t, src, c) ==
    {j \in (c + 1)..SubtreeEnd(t, c) :
        /\ t[j].type \in {"function_definition", "method_definition",
                          "method_declaration", "function_declaration",
                          "function_item"}
        /\ \E a \in (c + 1)..(j - 1) :
               /\ SubtreeEnd(t, a) >= j
               /\ t[a].type \in {"block", "class_body", "declaration_list",
                                 "field_declaration_list"}
        /\ _get_function_name(t, src, j) # ANONYMOUS}

\* C24: the methods list of a class holds, in source order, the name of
\* every named function-shaped node inside the class's body containers,
\* also of one wrapped by another node such as a decorator wrapper, and
\* never the string "anonymous".
C24_AllMethodsListed ==
    ParseReturned =>
        \A k \in 1..Len(ClassNodes) :
            LET members ==
                    SortedSeq(NamedMethodsBelow(tree, code, ClassNodes[k]))
            IN /\ result[1].classes[k].methods
                      = [m \in 1..Len(members) |->
                            _get_function_name(tree, code, members[m])]
               /\ \A m \in 1..Len(result[1].classes[k].methods) :
                      result[1].classes[k].methods[m] # ANONYMOUS

\* C24, for classes without wrapped methods
C24_PlainMethodsListed ==
    (ParseReturned
        /\ \A j \in 1..Len(tree) : tree[j].type # "decorated_definition") =>
        C24_AllMethodsListed

\* a class with the two plain methods f and f
C24_TwoPlainMethods ==
    /\ ParseReturned
    /\ code = <<"c", "C", "d", "f", "d", "f">>
    /\ result[1].classes[1].methods = <<<<"f">>, <<"f">>>>

\* C25: in Go no function is associated with a type: every class-like entry
\* made from a type_declaration has an empty methods list, whatever
\* functions and methods the text declares.
C25_GoTypesHaveNoMethods ==
    (ParseReturned /\ parser[1].language = "go") =>
        /\ Len(result[1].classes) = Len(ClassNodes)
        /\ \A k \in 1..Len(result[1].classes) :
               result[1].classes[k].methods = <<>>

\* a type, a method declared with a receiver of that type, and a function
C25_TypeWithReceiverMethod ==
    /\ ParseReturned
    /\ parser[1].language = "go"
    /\ Len(result[1].classes) >= 1
    /\ \E i, j \in 1..Len(tree) :
           /\ tree[i].type = "type_declaration"
           /\ tree[j].type = "method_declaration"
           /\ i < j
    /\ \E j \in 1..Len(tree) : tree[j].type = "function_declaration"

\* the tasks that hold a slot of the semaphore
InFlight == {k \in 1..Len(tasks) : tasks[k].at = "running"}

\* C26: at no moment are more than max_concurrent process_file calls in
\* flight, and a task that is done holds no slot, whether its file
\* succeeded or failed: the free slots are the limit minus the calls in
\* flight.
C26_AtMostMaxConcurrent ==
    semaphore # None =>
        /\ Cardinality(InFlight) <= semaphore[1].limit
        /\ semaphore[1].value = semaphore[1].limit - Cardinality(InFlight)

\* every slot taken, a task waiting, and a failed task that is done
C26_FullWithFailureBehind ==
    /\ semaphore # None
    /\ Cardinality(InFlight) = semaphore[1].limit
    /\ \E k \in 1..Len(tasks) : tasks[k].at = "waiting"
    /\ \E k \in 1..Len(tasks) :
           /\ tasks[k].at = "done"
           /\ tasks[k].result[1].status = "error"

\* C27: a call of process_repository eventually returns, and what it
\* returns is one result per file, in input order, each with status success
\* or error: a file that fails (unsupported language, parse error, failing
\* AI call) gets an error result and stops neither the call nor any other
\* file.
C27_OneResultPerFile ==
    /\ [](results # None =>
             /\ Len(results[1]) = Len(tasks)
             /\ \A k \in 1..Len(tasks) :
                    /\ results[1][k].file_path = tasks[k].file.path
                    /\ results[1][k].status
                           = IF tasks[k].file.language = "python"
                                   /\ tasks[k].file.fails = "nothing"
                             THEN "success" ELSE "error")
    /\ (semaphore # None) ~> (results # None)

\* returned: an unsupported language first, then a success, then a failure
C27_FailureBetweenSuccesses ==
    /\ results # None
    /\ Len(results[1]) = 3
    /\ tasks[1].file.language = "cobol"
    /\ results[1][1].status = "error"
    /\ results[1][2].status = "success"
    /\ results[1][3].status = "error"

\* every item of the job is completed, failed or skipped
AllItemsTerminal ==
    /\ batch_job # None
    /\ Len(items) > 0
    /\ \A k \in 1..Len(items) :
           items[k].status \in {"completed", "failed", "skipped"}

\* the job is marked finished
MarkedFinished ==
    /\ batch_job[1].status \in {"completed", "failed"}
    /\ batch_job[1].progress = 100
    /\ batch_job[1].completed_at

\* C28: when every item of a batch job is completed, failed or skipped, the
\* job is marked finished (status completed or failed, progress 100,
\* completed_at set) by the update that made the last item terminal: a job
\* whose items are all terminal is never in status processing.
C28_FinishedWhenAllItemsTerminal == AllItemsTerminal => MarkedFinished

\* C28, for the jobs none of whose items was skipped
C28_FinishedWhenNoneSkipped ==
    (AllItemsTerminal /\ \A k \in 1..Len(items) : items[k].status # "skipped")
        => MarkedFinished

\* two items, both failed, and the job finished by the second update
C28_TwoFailedItems ==
    /\ AllItemsTerminal
    /\ Len(items) = 2
    /\ \A k \in 1..Len(items) : items[k].status = "failed"
    /\ MarkedFinished

\* the job's status is s now and something else after the step
StatusLeaves(s) ==
    /\ batch_job # None
    /\ batch_job[1].status = s
    /\ batch_job'[1].status # s

\* C29: a batch job's terminal status is stable: once the status is
\* completed, failed or cancelled, no later step (cancel_batch_job, the
\* background processor's start_batch_job, a late item-status update)
\* changes it.
C29_TerminalStatusStable ==
    [][\A s \in {"completed", "failed", "cancelled"} : ~StatusLeaves(s)]_vars

\* C29, for the statuses completed and failed
C29_FinishedStatusStable ==
    [][\A s \in {"completed", "failed"} : ~StatusLeaves(s)]_vars

\* a failed job on which cancel_batch_job has nothing left to do
C29_FailedAndDone ==
    /\ batch_job # None
    /\ batch_job[1].status = "failed"
    /\ worker.at = "done"

\* detect_language has been called on a file name
Detected == call.op = "detect_language" /\ error = None /\ result # None

\* C30: language detection and grammar selection are consistent: every
\* language detect_language returns is one of the eight supported ids, so
\* a parser constructed from it does not raise the unsupported-language
\* error; every extension of SUPPORTED_EXTENSIONS, without its dot, is a
\* key of LANGUAGE_MAP, so every file name the extractor accepts (by its
\* lower-cased suffix) has a detected language.
C30_DetectionConsistent ==
    /\ Len(SUPPORTED_LANGUAGES) = 8
    /\ \A k \in DOMAIN LANGUAGE_MAP : LANGUAGE_MAP[k][2] \in SupportedSet
    /\ \A ext \in SUPPORTED_EXTENSIONS :
           DictGet(LANGUAGE_MAP, Tail(ext)) # None
    /\ Detected =>
           /\ result[1] # None =>
                  /\ result[1][1] \in SupportedSet
                  /\ CodeParserInit(result[1][1]).raised = None
           /\ Lower(suffix(call.arg[1])) \in SUPPORTED_EXTENSIONS =>
                  result[1] # None

\* Main.RS, which the extractor accepts, detected as rust
C30_UpperCaseRustFile ==
    /\ Detected
    /\ call.arg[1] = <<"M", "a", "i", "n", ".", "R", "S">>
    /\ Lower(suffix(call.arg[1])) \in SUPPORTED_EXTENSIONS
    /\ result[1] = Some("rust")

====
